---- MODULE Spec2Model ----
(***************************************************************************)
(* Model of the performance page of the battery dashboard                  *)
(* (src/pages/01_Performance.py): folder classification, the metadata      *)
(* cache, attribute and range filtering, and the series loader; and of the *)
(* dashboard itself (src/Dashboard.py): the worksheet header, the data     *)
(* memo, the sidebar filters and the two buttons.                          *)
(*                                                                         *)
(* Text is modelled as a sequence of one-character strings, so that the    *)
(* regular expression of classify_folder is matched character by           *)
(* character.  Numeric cell values are modelled in halves (the integer n   *)
(* stands for n/2), so that Python's round() is not the identity.          *)
(***************************************************************************)
EXTENDS Integers, Sequences, FiniteSets, TLC

VARIABLES
    folder_name,      \* classify_folder: its argument
    classification,   \* classify_folder: its result, or Pending before the call
    df,               \* the parsed content of one data file
    metadata,         \* what the metadata extractor records for df, or Pending
    loaded,           \* df after the series loader's fill and validity filter, or Pending
    classified_folders,  \* the classified folders of the pass (each with its path)
    selected_filters,    \* attribute key -> the set of selected values
    filtered_folders,    \* the folders that pass the attribute filters
    pc,                  \* the position of the page's script in its pass
    error,               \* the unhandled exception that ended the pass, or "none"
    messages,            \* the st.error / st.sidebar.write messages of the pass
    metadata_cache,      \* the in-memory dict: file URL -> cache entry
    metadata_file,       \* the content of metadata_cache.json (empty when absent)
    crawl_cache,         \* st.cache_data's memo of scan_and_classify_folders
    folder_i,            \* the collection loop: position in filtered_folders
    files,               \* the collection loop: the .csv hrefs of the folder, or NotListed
    file_i,              \* the collection loop: position in files
    file_info,           \* the files with a non-null summary
    selected_soc_range,  \* the slider values, <<>> before they exist
    selected_temp_range,
    filtered_file_info,  \* the range-filtered files, Undefined before the assignment
    fetches,             \* history: file URL -> answered requests of the metadata extractor
    failures,            \* history: the number of failed requests so far
    failed_fetch,        \* history: a request of this pass failed
    listed,              \* history: the file URLs the collection loop has met in this pass
    last_call,           \* history: the last call of the metadata extractor
    selected_columns,    \* the labels of the ticked Y-axis checkboxes, in sidebar order
    plot_i,              \* the plot loop: position in filtered_file_info
    plot_data,           \* the traces to draw, Undefined while the name is unbound
    requests,            \* history: the requests of this pass, in order
    window_listings,     \* history: the listings requested since the crawl was memoized
    relisted,            \* history: the listings requested again since then
    failed_urls,         \* history: URL whose last request failed -> the memo expired since
    series,              \* uniform_filter1d: its input
    smoothed,            \* uniform_filter1d: its output, or Pending before the call
    header,              \* fetch_data: the first row of the worksheet
    unique_header,       \* fetch_data: the column names of the DataFrame, or Pending
    sheet,               \* the dashboard: the data rows of the worksheet
    data_cache,          \* the dashboard: st.cache_data's memo of fetch_data
    battery_cache,       \* the dashboard: st.cache_data's memo of fetch_battery_info
    session_state,       \* the dashboard: st.session_state (widget keys, filters, filtered_df)
    widgets,             \* the dashboard: the state of the widgets without a key
    run                  \* the dashboard: what the last run of the script did

classifyVars == <<folder_name, classification>>
metaVars == <<df, metadata, loaded>>
filterVars == <<classified_folders, selected_filters, filtered_folders>>
cacheVars == <<metadata_cache, metadata_file, crawl_cache>>
loopVars == <<folder_i, files, file_i, file_info>>
rangeVars == <<selected_soc_range, selected_temp_range, filtered_file_info>>
historyVars == <<fetches, failures, failed_fetch, listed, last_call>>
plotVars == <<selected_columns, plot_i, plot_data>>
logVars == <<requests, window_listings, relisted, failed_urls>>
passVars == <<error, messages, cacheVars, loopVars, rangeVars, historyVars, plotVars, logVars>>
smoothVars == <<series, smoothed>>
headerVars == <<header, unique_header>>
dashVars == <<sheet, data_cache, battery_cache, session_state, widgets, run>>
vars == <<classifyVars, metaVars, filterVars, pc, passVars, smoothVars, headerVars, dashVars>>

Pending == [kind |-> "pending"]

(***************************************************************************)
(* Bounds                                                                  *)
(***************************************************************************)
\* largest number of underscore-delimited fields of a generated folder name
MaxFields == 10
\* largest number of all-digit fields of a generated folder name
MaxDigitFields == 2
\* largest number of rows of a generated data file
MaxRows == 3
\* largest number of classified folders of a filter run
MaxFolders == 3
\* largest number of answered metadata requests counted for one URL
MaxFetches == 2
\* largest number of failed requests in a run
MaxFailures == 1
\* deepest directory level below the root that holds data files
MaxDepth == 2
\* largest number of samples of a generated series
MaxSeries == 16
\* largest number of cells of a generated worksheet header
MaxHeaders == 4
\* largest number of data rows of a generated worksheet
MaxEntries == 2
\* largest number of interactions of a dashboard session after its opening
MaxInteractions == 2
\* largest number of runs of a dashboard session that an interaction stops
MaxInterrupts == 1

(***************************************************************************)
(* Text helpers                                                            *)
(***************************************************************************)

\* s[i..j], empty when j < i
Slice(s, i, j) == [k \in 1..(j - i + 1) |-> s[i + k - 1]]

RECURSIVE Join(_, _)
\* "_".join(fields)
Join(fields, sep) ==
    IF fields = <<>> THEN <<>>
    ELSE IF Len(fields) = 1 THEN Head(fields)
    ELSE Head(fields) \o <<sep>> \o Join(Tail(fields), sep)

\* s.endswith(suffix)
endswith(s, suffix) ==
    /\ Len(s) >= Len(suffix)
    /\ SubSeq(s, Len(s) - Len(suffix) + 1, Len(s)) = suffix

RECURSIVE strip(_, _)
\* str.strip(chars)
strip(s, chars) ==
    IF s = <<>> THEN s
    ELSE IF Head(s) \in chars THEN strip(Tail(s), chars)
    ELSE IF s[Len(s)] \in chars THEN strip(SubSeq(s, 1, Len(s) - 1), chars)
    ELSE s

\* s.startswith(prefix)
startswith(s, prefix) ==
    /\ Len(s) >= Len(prefix)
    /\ SubSeq(s, 1, Len(prefix)) = prefix

RECURSIVE replace(_, _, _)
\* s.replace(old, new) for a non-empty old: every occurrence, from the left
replace(s, old, new) ==
    LET found == {i \in 1..(Len(s) - Len(old) + 1) :
                     s[i] = old[1] /\ SubSeq(s, i, i + Len(old) - 1) = old}
        first == CHOOSE i \in found : \A j \in found : i <= j
    IN  IF found = {} THEN s
        ELSE SubSeq(s, 1, first - 1) \o new
                 \o replace(SubSeq(s, first + Len(old), Len(s)), old, new)

DecimalDigits == <<"0", "1", "2", "3", "4", "5", "6", "7", "8", "9">>

RECURSIVE str(_)
\* str(n) of a natural number, as in an f-string
str(n) ==
    IF n < 10 THEN <<DecimalDigits[n + 1]>>
    ELSE str(n \div 10) \o <<DecimalDigits[(n % 10) + 1]>>

(***************************************************************************)
(* Characters.  A character of the printable ASCII range is the string of  *)
(* that character; any other code point is written "<" hexadecimal ">",    *)
(* with two digits at least: "<00>", "<7F>", "<E9>", "<FFFD>"; so is the   *)
(* grave accent, "<60>".                                                   *)
(***************************************************************************)
Printable ==
    << " ", "!", "\"", "#", "$", "%", "&", "'", "(", ")", "*", "+", ",", "-", ".", "/",
       "0", "1", "2", "3", "4", "5", "6", "7", "8", "9", ":", ";", "<", "=", ">", "?",
       "@", "A", "B", "C", "D", "E", "F", "G", "H", "I", "J", "K", "L", "M", "N", "O",
       "P", "Q", "R", "S", "T", "U", "V", "W", "X", "Y", "Z", "[", "\\", "]", "^", "_",
       "<60>", "a", "b", "c", "d", "e", "f", "g", "h", "i", "j", "k", "l", "m", "n", "o",
       "p", "q", "r", "s", "t", "u", "v", "w", "x", "y", "z", "{", "|", "}", "~" >>

HexDigits == <<"0", "1", "2", "3", "4", "5", "6", "7", "8", "9", "A", "B", "C", "D", "E", "F">>

LowerHex == <<"a", "b", "c", "d", "e", "f">>

\* string.hexdigits
IsHex(c) ==
    \/ \E i \in 1..16 : HexDigits[i] = c
    \/ \E i \in 1..6 : LowerHex[i] = c

HexValue(c) ==
    IF \E i \in 1..16 : HexDigits[i] = c
    THEN (CHOOSE i \in 1..16 : HexDigits[i] = c) - 1
    ELSE (CHOOSE i \in 1..6 : LowerHex[i] = c) + 9

RECURSIVE HexName(_)
HexName(n) ==
    IF n < 16 THEN HexDigits[n + 1]
    ELSE HexName(n \div 16) \o HexDigits[(n % 16) + 1]

\* chr(n)
chr(n) ==
    IF n >= 32 /\ n <= 126 THEN Printable[n - 31]
    ELSE IF n < 16 THEN "<0" \o HexName(n) \o ">"
    ELSE "<" \o HexName(n) \o ">"

\* the code points of the digit zero of every decimal system of Unicode
\* (category Nd): the nine code points after each are its digits 1 to 9
DigitZeros ==
    { 48, 1632, 1776, 1984, 2406, 2534, 2662, 2790, 2918, 3046,
      3174, 3302, 3430, 3558, 3664, 3792, 3872, 4160, 4240, 6112,
      6160, 6470, 6608, 6784, 6800, 6992, 7088, 7232, 7248, 42528,
      43216, 43264, 43472, 43504, 43600, 44016, 65296, 66720, 68912, 69734,
      69872, 69942, 70096, 70384, 70736, 70864, 71248, 71360, 71472, 71904,
      72016, 72784, 73040, 73120, 92768, 92864, 93008, 120782, 120792, 120802,
      120812, 120822, 123200, 123632, 125264, 130032 }

\* the characters \d matches (str patterns: every Unicode decimal digit)
Digits == {chr(z + d) : z \in DigitZeros, d \in 0..9}

\* the characters str.strip() takes for white space
Whitespace ==
    {chr(n) : n \in (9..13) \cup (28..32) \cup {133, 160, 5760} \cup (8192..8202)
                        \cup {8232, 8233, 8239, 8287, 12288}}

AsciiWhitespace == {chr(n) : n \in (9..13) \cup {32}}

\* the characters float() strips: it turns the white space above chr(127)
\* into blanks and then strips the blanks of C, so the separators
\* chr(28)..chr(31) stay and make the text no number
FloatWhitespace == Whitespace \ {chr(n) : n \in 28..31}

(***************************************************************************)
(* urllib.parse.unquote: "%XY" with two hexadecimal digits is a byte, any  *)
(* other "%" is kept as it is; the bytes are decoded as UTF-8, and a byte  *)
(* or a truncated sequence that is no UTF-8 becomes U+FFFD                 *)
(* (errors='replace').                                                     *)
(***************************************************************************)
\* the byte of the escape at position i of s, -1 when there is none
ByteAt(s, i) ==
    IF /\ i + 2 <= Len(s)
       /\ s[i] = "%"
       /\ IsHex(s[i + 1])
       /\ IsHex(s[i + 2])
    THEN 16 * HexValue(s[i + 1]) + HexValue(s[i + 2])
    ELSE -1

Between(b, lo, hi) == lo <= b /\ b <= hi

\* bytes.decode('utf-8', 'replace') on the bytes b0 b1 b2 b3 (-1: no byte
\* follows): the code point of the first character and the number of bytes
\* it takes
Utf8Head(b0, b1, b2, b3) ==
    LET replaced(n) == [code |-> 65533, bytes |-> n]
        \* the range of the second byte of a sequence that starts with b0
        lo2 == IF b0 = 224 THEN 160 ELSE IF b0 = 240 THEN 144 ELSE 128
        hi2 == IF b0 = 237 THEN 159 ELSE IF b0 = 244 THEN 143 ELSE 191
    IN  IF b0 < 128 THEN [code |-> b0, bytes |-> 1]
        ELSE IF Between(b0, 194, 223)
        THEN IF Between(b1, 128, 191)
             THEN [code |-> (b0 - 192) * 64 + (b1 - 128), bytes |-> 2]
             ELSE replaced(1)
        ELSE IF Between(b0, 224, 239)
        THEN IF ~Between(b1, lo2, hi2) THEN replaced(1)
             ELSE IF ~Between(b2, 128, 191) THEN replaced(2)
             ELSE [code |-> (b0 - 224) * 4096 + (b1 - 128) * 64 + (b2 - 128), bytes |-> 3]
        ELSE IF Between(b0, 240, 244)
        THEN IF ~Between(b1, lo2, hi2) THEN replaced(1)
             ELSE IF ~Between(b2, 128, 191) THEN replaced(2)
             ELSE IF ~Between(b3, 128, 191) THEN replaced(3)
             ELSE [code |-> (b0 - 240) * 262144 + (b1 - 128) * 4096
                                + (b2 - 128) * 64 + (b3 - 128),
                   bytes |-> 4]
        ELSE replaced(1)

RECURSIVE unquote(_)
\* the character the escapes at the head of s decode to, then the rest
DecodeHead(s, head) ==
    <<chr(head.code)>> \o unquote(Slice(s, 3 * head.bytes + 1, Len(s)))

unquote(s) ==
    IF s = <<>> THEN <<>>
    ELSE IF ByteAt(s, 1) >= 0
         THEN DecodeHead(s, Utf8Head(ByteAt(s, 1), ByteAt(s, 4), ByteAt(s, 7), ByteAt(s, 10)))
         ELSE <<s[1]>> \o unquote(Tail(s))

(***************************************************************************)
(* classify_folder                                                         *)
(***************************************************************************)
\* the character classes of the pattern: [^_], \d, [^/]
InClass(c, cls) ==
    CASE cls = "not_underscore" -> c # "_"
      [] cls = "digit"          -> c \in Digits
      [] cls = "not_slash"      -> c # "/"

\* the named groups of the pattern, in order, each with its character class
\* and whether a literal "_" follows it
PatternYearAny ==
    << [group |-> "manufacturer",      cls |-> "not_underscore", sep |-> TRUE],
       [group |-> "model",             cls |-> "not_underscore", sep |-> TRUE],
       [group |-> "variant",           cls |-> "not_underscore", sep |-> TRUE],
       [group |-> "model_year",        cls |-> "not_underscore", sep |-> TRUE],
       [group |-> "battery",           cls |-> "not_underscore", sep |-> TRUE],
       [group |-> "front_motor",       cls |-> "not_underscore", sep |-> TRUE],
       [group |-> "rear_motor",        cls |-> "not_underscore", sep |-> TRUE],
       [group |-> "tuning",            cls |-> "not_underscore", sep |-> TRUE],
       [group |-> "acceleration_mode", cls |-> "not_slash",      sep |-> FALSE] >>

pattern ==
    << [group |-> "manufacturer",      cls |-> "not_underscore", sep |-> TRUE],
       [group |-> "model",             cls |-> "not_underscore", sep |-> TRUE],
       [group |-> "variant",           cls |-> "not_underscore", sep |-> TRUE],
       [group |-> "model_year",        cls |-> "digit",          sep |-> TRUE],
       [group |-> "battery",           cls |-> "not_underscore", sep |-> TRUE],
       [group |-> "front_motor",       cls |-> "not_underscore", sep |-> TRUE],
       [group |-> "rear_motor",        cls |-> "not_underscore", sep |-> TRUE],
       [group |-> "tuning",            cls |-> "not_underscore", sep |-> TRUE],
       [group |-> "acceleration_mode", cls |-> "not_slash",      sep |-> FALSE] >>

AttributeKeys == {pattern[k].group : k \in 1..Len(pattern)}

\* The greedy quantifier "+": the last position of the longest run of
\* characters of class cls that starts at position i (i - 1 when s[i] is not
\* in the class or i is past the end).
RunEnd(s, i, cls) ==
    CHOOSE j \in (i - 1)..Len(s) :
        /\ \A k \in i..j : InClass(s[k], cls)
        /\ j = Len(s) \/ ~InClass(s[j + 1], cls)

\* pattern.match(folder_name) from group k at position i; groups holds the
\* groups matched so far.  A group followed by "_" has a single way to
\* match: its class excludes "_" (or is \d), so a run shorter than the
\* longest one is followed by a character that is not "_" and backtracking
\* finds nothing.  The last group is greedy and nothing follows it; match()
\* does not anchor the end of the name.
RECURSIVE MatchFrom(_, _, _, _, _)
\* group k of the pattern takes s[i..j]: the separator, then the groups after it
MatchGroup(pat, s, k, i, j, groups) ==
    IF j < i THEN [kind |-> "None"]
    ELSE IF pat[k].sep /\ ~(j + 1 <= Len(s) /\ s[j + 1] = "_") THEN [kind |-> "None"]
    ELSE MatchFrom(pat, s, k + 1, IF pat[k].sep THEN j + 2 ELSE j + 1,
                   [n \in (DOMAIN groups) \cup {pat[k].group} |->
                       IF n = pat[k].group THEN Slice(s, i, j) ELSE groups[n]])

MatchFrom(pat, s, k, i, groups) ==
    IF k > Len(pat) THEN [kind |-> "record", d |-> groups]
    ELSE MatchGroup(pat, s, k, i, RunEnd(s, i, pat[k].cls), groups)

EmptyDict == [n \in {} |-> <<>>]

\* lines 61-66: the groups of a match, tuning and acceleration_mode unquoted
Classified(match) ==
    IF match.kind = "record"
    THEN [kind |-> "record",
          d |-> [n \in DOMAIN match.d |->
                    IF n \in {"tuning", "acceleration_mode"}
                    THEN unquote(match.d[n])
                    ELSE match.d[n]]]
    ELSE [kind |-> "None"]

ClassifyWith(pat, name) == Classified(MatchFrom(pat, name, 1, 1, EmptyDict))

\* a variant of the pattern whose acceleration_mode group (with the "_"
\* before it) is optional
ClassifyFolderOptionalMode(name) ==
    LET full == ClassifyWith(pattern, name)
        head == [k \in 1..(Len(pattern) - 1) |->
                    IF k = Len(pattern) - 1
                    THEN [pattern[k] EXCEPT !.sep = FALSE]
                    ELSE pattern[k]]
    IN  IF full.kind = "record" THEN full ELSE ClassifyWith(head, name)

\* a classifier that takes a name that does not match as the value of
\* every attribute
ClassifyFolderLenient(name) ==
    LET full == ClassifyWith(pattern, name)
    IN  IF full.kind = "record" THEN full
        ELSE [kind |-> "record", d |-> [n \in AttributeKeys |-> name]]

classify_folder(name) == ClassifyWith(pattern, name)

(***************************************************************************)
(* Folder names of the classification runs: fields joined by "_".  Every   *)
(* field is a letter or (for a few of them) a digit, and at most one field *)
(* is replaced by a special one (empty, percent-encoded in one or in two   *)
(* bytes, holding a "/", digit then letter, two other digits).             *)
(***************************************************************************)
SpecialFields ==
    {<<>>, <<"%", "2", "0">>, <<"%", "C", "3", "%", "A", "9">>, <<"m", "/", "m">>,
     <<"2", "m">>, <<"1", "9">>}

PlainNames(n) ==
    {[k \in 1..n |-> IF k \in D THEN <<"2">> ELSE <<"m">>] :
        D \in {X \in SUBSET (1..n) : Cardinality(X) <= MaxDigitFields}}

GeneratedName(name) ==
    \E n \in 0..MaxFields : \E f \in PlainNames(n) :
        \/ name = Join(f, "_")
        \/ \E p \in 1..n, sp \in SpecialFields : name = Join([f EXCEPT ![p] = sp], "_")

MetaIdle ==
    /\ df = [columns |-> <<>>, index |-> <<>>, rows |-> <<>>]
    /\ metadata = Pending
    /\ loaded = Pending

SmoothIdle ==
    /\ series = [dtype |-> "float64", values |-> <<>>]
    /\ smoothed = Pending

HeaderIdle ==
    /\ header = <<>>
    /\ unique_header = Pending

NoRun ==
    [trigger |-> "none", fetched |-> FALSE, df |-> [defined |-> FALSE],
     counted |-> [defined |-> FALSE], since_press |-> {}, first_call |-> FALSE,
     interactions |-> 0, interrupts |-> 0]

DashIdle ==
    /\ sheet = <<>>
    /\ data_cache = [kind |-> "none"]
    /\ battery_cache = [kind |-> "none"]
    /\ session_state = [defined |-> FALSE]
    /\ widgets = [defined |-> FALSE]
    /\ run = NoRun

NoFilters == [k \in {} |-> {}]

FilterIdle ==
    /\ classified_folders = <<>>
    /\ selected_filters = NoFilters
    /\ filtered_folders = <<>>

EmptyCache == [u \in {} |-> {}]
NoMemo == [kind |-> "none"]
NotListed == [listed |-> FALSE]
Undefined == [defined |-> FALSE]
NoCall == [url |-> <<>>, outcome |-> "none", raised |-> "none"]

\* the state of the performance page before its first pass, but for the
\* memo of the crawl
PassStart ==
    /\ error = "none"
    /\ messages = {}
    /\ metadata_cache = EmptyCache
    /\ metadata_file = EmptyCache
    /\ folder_i = 1
    /\ files = NotListed
    /\ file_i = 1
    /\ file_info = <<>>
    /\ selected_soc_range = <<>>
    /\ selected_temp_range = <<>>
    /\ filtered_file_info = Undefined
    /\ fetches = EmptyCache
    /\ failures = 0
    /\ failed_fetch = FALSE
    /\ listed = {}
    /\ last_call = NoCall
    /\ selected_columns = <<>>
    /\ plot_i = 1
    /\ plot_data = Undefined
    /\ requests = <<>>
    /\ window_listings = {}
    /\ relisted = {}
    /\ failed_urls = EmptyCache

PassIdle == crawl_cache = NoMemo /\ PassStart

PageIdle == pc = "idle" /\ PassIdle

InitClassify ==
    /\ GeneratedName(folder_name)
    /\ classification = Pending
    /\ MetaIdle
    /\ FilterIdle
    /\ PageIdle
    /\ SmoothIdle
    /\ HeaderIdle
    /\ DashIdle

Classify ==
    /\ classification = Pending
    /\ classification' = classify_folder(folder_name)
    /\ UNCHANGED <<folder_name, metaVars, filterVars, pc, passVars, smoothVars, headerVars, dashVars>>

NextClassify == Classify

SpecClassify == InitClassify /\ [][NextClassify]_vars

(***************************************************************************)
(* The folder grammar, stated on the fields of the name rather than by a   *)
(* scan: the name is cut at its first eight underscores; the eight fields  *)
(* before them are non-empty, the fourth is made of digits, and the rest   *)
(* of the name (underscores included) starts with a character other than   *)
(* "/".  The acceleration_mode is that rest up to the first "/".           *)
(***************************************************************************)
Underscores(s) == {i \in 1..Len(s) : s[i] = "_"}

\* the position of the n-th underscore of s
NthUnderscore(s, n) ==
    CHOOSE i \in Underscores(s) :
        Cardinality({u \in Underscores(s) : u <= i}) = n

\* the n-th underscore-delimited field of s, for n <= 8
Field(s, n) ==
    Slice(s,
          IF n = 1 THEN 1 ELSE NthUnderscore(s, n - 1) + 1,
          NthUnderscore(s, n) - 1)

Rest(s) == Slice(s, NthUnderscore(s, 8) + 1, Len(s))

MatchesGrammar(s) ==
    /\ Cardinality(Underscores(s)) >= 8
    /\ \A n \in 1..8 : Field(s, n) # <<>>
    /\ \A k \in 1..Len(Field(s, 4)) : Field(s, 4)[k] \in Digits
    /\ Rest(s) # <<>>
    /\ Rest(s)[1] # "/"

\* exactly the eight required fields, well formed, and no acceleration_mode
EightFieldName(s) ==
    /\ Cardinality(Underscores(s)) = 7
    /\ LET t == s \o <<"_">>
       IN  /\ \A n \in 1..8 : Field(t, n) # <<>>
           /\ \A k \in 1..Len(Field(t, 4)) : Field(t, 4)[k] \in Digits

\* C1: classify_folder is total: a name that matches the grammar yields a
\* record with exactly the nine attribute keys, each populated, and a name
\* that does not match yields None; nothing else is ever returned.
C1_ClassificationTotal ==
    classification # Pending =>
        IF MatchesGrammar(folder_name)
        THEN /\ classification.kind = "record"
             /\ DOMAIN classification.d = AttributeKeys
             /\ \A n \in AttributeKeys : classification.d[n] # <<>>
             /\ \A n \in 1..8 :
                    classification.d[pattern[n].group] =
                        IF n = 8 THEN unquote(Field(folder_name, n))
                        ELSE Field(folder_name, n)
        ELSE classification = [kind |-> "None"]

C1_Witness ==
    /\ classification # Pending
    /\ classification.kind = "record"
    /\ Cardinality(Underscores(folder_name)) = 8

\* C2 as stated: a name of exactly the eight required fields, without an
\* acceleration_mode, is classified into a record.
C2_EightFieldsClassified ==
    (classification # Pending /\ EightFieldName(folder_name))
        => classification.kind = "record"

\* C2 as amended: acceleration_mode is required; a name of exactly the eight
\* required fields is rejected as "no match".
C2_EightFieldsRejected ==
    (classification # Pending /\ EightFieldName(folder_name))
        => classification = [kind |-> "None"]

C2_Witness ==
    /\ classification = [kind |-> "None"]
    /\ EightFieldName(folder_name)

\* C19: every attribute of a classified folder is its field of the name
\* with the percent-encoded characters decoded exactly once (%20 becomes a
\* blank, %2520 becomes %20): no encoded field is left undecoded.
C19_EveryAttributeDecodedOnce ==
    (classification # Pending /\ classification.kind = "record") =>
        \A n \in 1..8 :
            classification.d[pattern[n].group] = unquote(Field(folder_name, n))

(***************************************************************************)
(* Data files.  A DataFrame has its column names, its index labels (the    *)
(* numbers of the rows of the file it keeps) and its rows, each a function *)
(* from column name to cell.  A cell is the set {n} for the number n/2 and *)
(* the empty set for a missing value (NaN).  A summary value of the        *)
(* metadata cache is {n} for the integer n and the empty set for None.     *)
(***************************************************************************)
NaN == {}
None == {}
Num(n) == {n}

\* cell >= k and cell <= k for a whole number k; False for NaN, as in pandas
Ge(cell, k) == \E x \in cell : x >= 2 * k
Le(cell, k) == \E x \in cell : x <= 2 * k

\* pd.notna
notna(cell) == cell # NaN

\* Python's round() of a float: to the nearest integer, a tie to the even one
round(cell) ==
    {IF x % 2 = 0 THEN x \div 2
     ELSE IF (x \div 2) % 2 = 0 THEN x \div 2 ELSE (x \div 2) + 1 : x \in cell}

Column(frame, c) == [i \in 1..Len(frame.rows) |-> frame.rows[i][c]]

SetColumn(frame, c, col) ==
    [frame EXCEPT !.rows =
        [i \in 1..Len(frame.rows) |-> [frame.rows[i] EXCEPT ![c] = col[i]]]]

RECURSIVE ffill(_)
\* Series.ffill(): a missing value takes the last value before it
ffill(col) ==
    IF Len(col) <= 1 THEN col
    ELSE LET p == ffill(SubSeq(col, 1, Len(col) - 1))
         IN  Append(p, IF notna(col[Len(col)]) THEN col[Len(col)] ELSE p[Len(p)])

RECURSIVE bfill(_)
\* Series.bfill(): a missing value takes the next value after it
bfill(col) ==
    IF Len(col) <= 1 THEN col
    ELSE LET t == bfill(Tail(col))
         IN  <<IF notna(Head(col)) THEN Head(col) ELSE Head(t)>> \o t

\* a fill in the other order: bfill() then ffill()
BfillFfill(col) == ffill(bfill(col))

\* .ffill().bfill()
FfillBfill(col) == bfill(ffill(col))

\* df[mask]: the rows whose position is in keep, with their index labels
SelectRows(frame, keep) ==
    LET pos == {i \in 1..Len(frame.rows) : i \in keep}
        RECURSIVE Pick(_)
        Pick(i) ==
            IF i > Len(frame.rows) THEN <<>>
            ELSE IF i \in pos THEN <<i>> \o Pick(i + 1) ELSE Pick(i + 1)
        order == Pick(1)
    IN  [columns |-> frame.columns,
         index   |-> [k \in 1..Len(order) |-> frame.index[order[k]]],
         rows    |-> [k \in 1..Len(order) |-> frame.rows[order[k]]]]

\* the validity mask of the series loader (line 394)
LoaderValid(row) ==
    /\ Ge(row["SOC"], 0) /\ Le(row["SOC"], 101)
    /\ Ge(row["Cell temp mid"], 0) /\ Le(row["Cell temp mid"], 70)

\* a mask without the bounds: every row with both values present
ExtractorValidAny(row) ==
    notna(row["SOC"]) /\ notna(row["Cell temp mid"])

\* the validity mask of the metadata extractor (line 225)
ExtractorValid(row) ==
    /\ Ge(row["SOC"], -5) /\ Le(row["SOC"], 101)
    /\ Ge(row["Cell temp mid"], -30) /\ Le(row["Cell temp mid"], 70)

\* a cache entry {'headers': h, 'SOC': s, 'Cell temp mid': t}
Entry(h, s, t) == ("headers" :> h) @@ ("SOC" :> s) @@ ("Cell temp mid" :> t)

HasColumn(columns, c) == \E i \in 1..Len(columns) : columns[i] = c

\* lines 221-225: fill the two required columns, then drop the invalid rows
ExtractorFrame(frame) ==
    LET f1 == SetColumn(frame, "SOC", FfillBfill(Column(frame, "SOC")))
        f2 == SetColumn(f1, "Cell temp mid", FfillBfill(Column(f1, "Cell temp mid")))
    IN  SelectRows(f2, {i \in 1..Len(f2.rows) : ExtractorValid(f2.rows[i])})

RECURSIVE FirstValid(_, _)
\* lines 228-238: the loop over the remaining rows
FirstValid(frame, i) ==
    IF i > Len(frame.rows) THEN Entry(frame.columns, None, None)
    ELSE IF notna(frame.rows[i]["SOC"]) /\ notna(frame.rows[i]["Cell temp mid"])
         THEN Entry(frame.columns,
                    round(frame.rows[i]["SOC"]),
                    round(frame.rows[i]["Cell temp mid"]))
         ELSE FirstValid(frame, i + 1)

\* lines 214-238: what fetch_csv_headers_and_first_valid_values records and
\* returns for a parsed file on a cache miss
first_valid_values(frame) ==
    IF ~HasColumn(frame.columns, "SOC") \/ ~HasColumn(frame.columns, "Cell temp mid")
    THEN Entry(frame.columns, None, None)
    ELSE FirstValid(ExtractorFrame(frame), 1)

\* lines 390-394: the series loader fills every column and drops invalid rows
LoaderFrame(frame) ==
    LET filled ==
            [frame EXCEPT !.rows =
                [i \in 1..Len(frame.rows) |->
                    [c \in DOMAIN frame.rows[i] |->
                        FfillBfill(Column(frame, c))[i]]]]
    IN  SelectRows(filled, {i \in 1..Len(filled.rows) : LoaderValid(filled.rows[i])})

\* a > b on cells; False when either is NaN
Gt(a, b) == \E x \in a : \E y \in b : x > y

\* lines 397-398: df[df['Speed'].diff() > 0] keeps the rows whose Speed is
\* above the Speed of the row before; the first row's difference is NaN
SpeedIncreasing(frame) ==
    IF HasColumn(frame.columns, "Speed")
    THEN SelectRows(frame, {i \in 2..Len(frame.rows) :
                               Gt(frame.rows[i]["Speed"], frame.rows[i - 1]["Speed"])})
    ELSE frame

\* lines 390-398: the series loader
SeriesFrame(frame) == SpeedIncreasing(LoaderFrame(frame))

(***************************************************************************)
(* Double precision numbers (IEEE 754 binary64), the element type of a     *)
(* float64 column and of the line buffers of scipy.ndimage.  A finite      *)
(* double is the number mant * 2^exp, negated when neg holds: mant is its  *)
(* significand, a natural number of 53 binary digits; zero has the         *)
(* significand 0.  A natural number is the sequence of its digits in base  *)
(* 2^15, the least significant first and the most significant not 0.  The  *)
(* numbers of the data files are far from the ends of the exponent range,  *)
(* so no operation overflows or leaves the normal numbers.                 *)
(***************************************************************************)
\* the binary digits of the significand
Precision == 53

\* the base of the digits of a natural number
Base == 2 ^ 15

\* digit i of the natural number n
Digit(n, i) == IF i \in 1..Len(n) THEN n[i] ELSE 0

RECURSIVE Trim(_)
\* n without its leading zeros
Trim(n) == IF n # <<>> /\ n[Len(n)] = 0 THEN Trim(SubSeq(n, 1, Len(n) - 1)) ELSE n

\* the natural number k
NatOf(k) == Trim(<<k % Base, (k \div Base) % Base, k \div (Base * Base)>>)

\* the natural number n, which has three digits at most
IntOf(n) == Digit(n, 1) + Base * Digit(n, 2) + Base * Base * Digit(n, 3)

\* the number of binary digits of n
BitLength(n) ==
    IF n = <<>> THEN 0
    ELSE 15 * (Len(n) - 1)
             + (CHOOSE k \in 1..15 : 2 ^ (k - 1) <= n[Len(n)] /\ n[Len(n)] < 2 ^ k)

\* binary digit i of n
BitAt(n, i) == (Digit(n, (i - 1) \div 15 + 1) \div (2 ^ ((i - 1) % 15))) % 2

\* the binary digits 1..k of n are 0
LowZero(n, k) ==
    /\ \A i \in 1..(k \div 15) : Digit(n, i) = 0
    /\ Digit(n, k \div 15 + 1) % (2 ^ (k % 15)) = 0

\* n * 2^k
ShiftLeft(n, k) ==
    Trim([i \in 1..(IF n = <<>> THEN 0 ELSE Len(n) + k \div 15 + 1) |->
             ((Digit(n, i - k \div 15) * (2 ^ (k % 15))) % Base)
                 + ((Digit(n, i - k \div 15 - 1) * (2 ^ (k % 15))) \div Base)])

\* n \div 2^k
ShiftRight(n, k) ==
    Trim([i \in 1..Len(n) |->
             (Digit(n, i + k \div 15) \div (2 ^ (k % 15)))
                 + (Digit(n, i + k \div 15 + 1) % (2 ^ (k % 15))) * (2 ^ (15 - (k % 15)))])

RECURSIVE AddDigits(_, _, _, _)
\* the digits i and above of a + b, with the carry into digit i
AddDigits(a, b, i, carry) ==
    IF i > Len(a) /\ i > Len(b) THEN (IF carry = 1 THEN <<1>> ELSE <<>>)
    ELSE <<(Digit(a, i) + Digit(b, i) + carry) % Base>>
             \o AddDigits(a, b, i + 1, (Digit(a, i) + Digit(b, i) + carry) \div Base)

RECURSIVE SubDigits(_, _, _, _)
\* the digits i and above of a - b for a >= b, with the borrow from digit i
SubDigits(a, b, i, borrow) ==
    IF i > Len(a) THEN <<>>
    ELSE <<(Digit(a, i) - Digit(b, i) - borrow) % Base>>
             \o SubDigits(a, b, i + 1, IF Digit(a, i) - Digit(b, i) - borrow < 0 THEN 1 ELSE 0)

\* a + b
Plus(a, b) == AddDigits(a, b, 1, 0)

\* a - b, for a >= b
Minus(a, b) == Trim(SubDigits(a, b, 1, 0))

\* a < b
Less(a, b) ==
    \/ Len(a) < Len(b)
    \/ /\ Len(a) = Len(b)
       /\ \E i \in 1..Len(a) : /\ a[i] < b[i]
                               /\ \A j \in (i + 1)..Len(a) : a[j] = b[j]

\* the quotient so far with one more digit below it
DivStep(rest, digit) == [q |-> Append(rest.q, digit), r |-> rest.r]

\* long division of n by the number d of one digit, the quotient and the
\* remainder: digits[i, rem] divides the digits i and below, rem being the
\* remainder of the digits above
DivDigits(n, d) ==
    LET digits[i \in 0..Len(n), rem \in 0..(d - 1)] ==
            IF i = 0 THEN [q |-> <<>>, r |-> rem]
            ELSE DivStep(digits[i - 1, (rem * Base + n[i]) % d], (rem * Base + n[i]) \div d)
    IN  digits[Len(n), 0]

Zero == [neg |-> FALSE, mant |-> <<>>, exp |-> 0]

\* the significand m of a number rounded up, cut to Precision digits when
\* it has grown by one
RoundedUp(neg, m, e) ==
    IF BitLength(m) > Precision
    THEN [neg |-> neg, mant |-> ShiftRight(m, 1), exp |-> e + 1]
    ELSE [neg |-> neg, mant |-> m, exp |-> e]

\* the double nearest to n * 2^e that keeps the first Precision binary
\* digits of n, cut binary digits below them: the number is rounded up when
\* the first digit cut is 1 and a digit below it is 1 or the last digit
\* kept is 1 (round to nearest, ties to even)
RoundedTo(neg, n, e, cut) ==
    IF BitAt(n, cut) = 1 /\ (~LowZero(n, cut - 1) \/ BitAt(n, cut + 1) = 1)
    THEN RoundedUp(neg, Plus(ShiftRight(n, cut), <<1>>), e + cut)
    ELSE [neg |-> neg, mant |-> ShiftRight(n, cut), exp |-> e + cut]

\* the double nearest to n * 2^e: the rounding of every operation on
\* doubles
Rounded(neg, n, e) ==
    IF n = <<>> THEN [neg |-> neg, mant |-> <<>>, exp |-> 0]
    ELSE IF BitLength(n) <= Precision
    THEN [neg |-> neg, mant |-> ShiftLeft(n, Precision - BitLength(n)),
          exp |-> e - (Precision - BitLength(n))]
    ELSE RoundedTo(neg, n, e, BitLength(n) - Precision)

\* the sum of two numbers with their significands at the same exponent e
AddAligned(xneg, a, yneg, b, e) ==
    IF xneg = yneg THEN Rounded(xneg, Plus(a, b), e)
    ELSE IF a = b THEN Zero
    ELSE IF Less(a, b) THEN Rounded(yneg, Minus(b, a), e)
    ELSE Rounded(xneg, Minus(a, b), e)

\* x + y in doubles
DoubleAdd(x, y) ==
    IF x.mant = <<>> THEN (IF y.mant = <<>> THEN [Zero EXCEPT !.neg = x.neg /\ y.neg] ELSE y)
    ELSE IF y.mant = <<>> THEN x
    ELSE IF x.exp <= y.exp
    THEN AddAligned(x.neg, x.mant, y.neg, ShiftLeft(y.mant, y.exp - x.exp), x.exp)
    ELSE AddAligned(x.neg, ShiftLeft(x.mant, x.exp - y.exp), y.neg, y.mant, y.exp)

\* x - y in doubles
DoubleSub(x, y) == DoubleAdd(x, [y EXCEPT !.neg = ~y.neg])

\* the quotient q of a division with the remainder r, rounded: a binary
\* digit below q tells whether anything is left
RoundedQuotient(neg, res, e) ==
    Rounded(neg, Plus(ShiftLeft(Trim(res.q), 1), IF res.r = 0 THEN <<>> ELSE <<1>>), e - 1)

\* x / d in doubles, for a whole number d in 1..15; the quotient is taken
\* to eight binary digits more than the significand has
DoubleDiv(x, d) ==
    IF x.mant = <<>> THEN x
    ELSE RoundedQuotient(x.neg, DivDigits(ShiftLeft(x.mant, 8), d), x.exp - 8)

\* the whole number k as a double
FromInt(k) == Rounded(k < 0, NatOf(IF k < 0 THEN -k ELSE k), 0)

\* the double of a cell of a data file, held in halves
FromHalves(n) == Rounded(n < 0, NatOf(IF n < 0 THEN -n ELSE n), -1)

\* the double pd.read_csv parses from a number written with one decimal
\* place, the number of tenths t: the digits as a whole number, divided by
\* ten (the parser of the C engine, precise_xstrtod)
FromTenths(t) == DoubleDiv(FromInt(t), 10)

\* the C cast of a double with a small value to an integer: towards zero
TruncToInt(x) ==
    IF x.exp >= 0
    THEN (IF x.neg THEN -1 ELSE 1) * IntOf(ShiftLeft(x.mant, x.exp))
    ELSE (IF x.neg THEN -1 ELSE 1) * IntOf(ShiftRight(x.mant, -x.exp))

(***************************************************************************)
(* scipy.ndimage.uniform_filter1d(input, size) with its defaults             *)
(* (mode='reflect', origin=0), as NI_UniformFilter1D of the releases that  *)
(* keep the running sum undivided computes it: the input is copied into a  *)
(* buffer of doubles that is extended at both ends, the sum of the first   *)
(* size elements of the buffer gives the first output, and every further   *)
(* output comes from the sum before it, plus the element that enters the   *)
(* window minus the element that leaves it.  Every output is the sum       *)
(* divided by size, cast to the dtype of the input: an int64 input gets    *)
(* the quotient cut towards zero.  The input is an array, its dtype and    *)
(* values (whole numbers for int64, doubles for float64).  An array        *)
(* without an element is taken to yield an array without an element.       *)
(***************************************************************************)
\* the window of the smoothing calls of the plot loop
size == 15

\* mode='reflect': (d c b a | a b c d | d c b a), repeated as often as the
\* window needs when the input is shorter than the window
ExtendReflect(x, j) ==
    LET n == Len(x)
        m == (j - 1) % (2 * n)
    IN  x[IF m < n THEN m + 1 ELSE 2 * n - m]

\* the buffer of the line: size \div 2 elements before the input and
\* size - size \div 2 - 1 after it, every element as a double
LineBuffer(input, sz) ==
    [j \in 1..(IF input.values = <<>> THEN 0 ELSE Len(input.values) + sz - 1) |->
        IF input.dtype = "int64"
        THEN FromInt(ExtendReflect(input.values, j - (sz \div 2)))
        ELSE ExtendReflect(input.values, j - (sz \div 2))]

RECURSIVE FirstSum(_, _)
\* tmp after the loop over the first k elements of the buffer
FirstSum(line, k) ==
    IF k = 0 THEN Zero ELSE DoubleAdd(FirstSum(line, k - 1), line[k])

\* one output: tmp / filter_size, stored with the dtype of the output
Output(dtype, tmp, sz) ==
    IF dtype = "int64" THEN TruncToInt(DoubleDiv(tmp, sz)) ELSE DoubleDiv(tmp, sz)

RECURSIVE RunningMeans(_, _, _, _, _)
\* the outputs ll..length, tmp being the running sum of output ll; the
\* next sum is tmp + (*l2++ - *l1++)
RunningMeans(line, dtype, ll, sz, tmp) ==
    IF ll + sz - 1 = Len(line) THEN <<Output(dtype, tmp, sz)>>
    ELSE <<Output(dtype, tmp, sz)>>
             \o RunningMeans(line, dtype, ll + 1, sz,
                             DoubleAdd(tmp, DoubleSub(line[ll + sz], line[ll])))

\* the outputs of a line from its buffer
FilterLine(line, dtype, sz) ==
    IF Len(line) < sz THEN <<>> ELSE RunningMeans(line, dtype, 1, sz, FirstSum(line, sz))

uniform_filter1d(input, sz) ==
    [dtype |-> input.dtype, values |-> FilterLine(LineBuffer(input, sz), input.dtype, sz)]

(***************************************************************************)
(* Data files of the extraction runs: up to MaxRows rows drawn from a      *)
(* list that holds the spec's example rows, missing values, ties of        *)
(* round() and values at and just outside each validity bound.             *)
(***************************************************************************)
Row(soc, temp) == ("SOC" :> soc) @@ ("Cell temp mid" :> temp)

SampleRows ==
    { Row(Num(40), Num(50)),      \* SOC 20, 25 degrees
      Row(Num(42), Num(52)),      \* SOC 21, 26 degrees
      Row(NaN, NaN),
      Row(NaN, Num(51)),          \* 25.5 degrees
      Row(Num(43), NaN),          \* SOC 21.5
      Row(Num(-10), Num(-60)),    \* SOC -5, -30 degrees: the lower bounds
      Row(Num(-11), Num(50)),     \* SOC -5.5
      Row(Num(202), Num(141)),    \* 70.5 degrees
      Row(Num(203), Num(140)),    \* SOC 101.5
      Row(Num(40), Num(-61)) }    \* -30.5 degrees

ColumnChoices == { <<"SOC", "Cell temp mid">>, <<"SOC">>, <<"Cell temp mid">> }

Restrict(row, columns) ==
    [c \in {columns[i] : i \in 1..Len(columns)} |-> row[c]]

Frame(columns, rows) ==
    [columns |-> columns,
     index   |-> [i \in 1..Len(rows) |-> i],
     rows    |-> [i \in 1..Len(rows) |-> Restrict(rows[i], columns)]]

SampleFrame(frame) ==
    \E n \in 0..MaxRows : \E c \in ColumnChoices, r \in [1..n -> SampleRows] :
        frame = Frame(c, r)

ClassifyIdle ==
    /\ folder_name = <<>>
    /\ classification = Pending

InitMeta ==
    /\ SampleFrame(df)
    /\ metadata = Pending
    /\ loaded = Pending
    /\ ClassifyIdle
    /\ FilterIdle
    /\ PageIdle
    /\ SmoothIdle
    /\ HeaderIdle
    /\ DashIdle

\* the metadata extractor computes the summary of the file
Extract ==
    /\ metadata = Pending
    /\ metadata' = first_valid_values(df)
    /\ UNCHANGED <<df, loaded, classifyVars, smoothVars, headerVars, filterVars, pc, passVars, dashVars>>

\* the series loader reads the file; only files with a non-null summary
\* reach it (lines 256-258)
Load ==
    /\ metadata # Pending
    /\ loaded = Pending
    /\ metadata["SOC"] # None /\ metadata["Cell temp mid"] # None
    /\ loaded' = LoaderFrame(df)
    /\ UNCHANGED <<df, metadata, classifyVars, smoothVars, headerVars, filterVars, pc, passVars, dashVars>>

NextMeta == Extract \/ Load

SpecMeta == InitMeta /\ [][NextMeta]_vars

(***************************************************************************)
(* The summary the metadata extractor is to record, stated on positions:   *)
(* the filled value of a column at row i is the value of the nearest       *)
(* non-missing row at or before i, or else of the nearest one after i.     *)
(***************************************************************************)
Filled(frame, c, i) ==
    LET before == {j \in 1..i : frame.rows[j][c] # NaN}
        after  == {j \in i..Len(frame.rows) : frame.rows[j][c] # NaN}
    IN  IF before # {}
        THEN frame.rows[CHOOSE j \in before : \A k \in before : k <= j][c]
        ELSE IF after # {}
             THEN frame.rows[CHOOSE j \in after : \A k \in after : j <= k][c]
             ELSE NaN

InBounds(cell, lo, hi) == \E x \in cell : 2 * lo <= x /\ x <= 2 * hi

\* the rows that remain after the fill and the validity bounds
Remaining(frame) ==
    {i \in 1..Len(frame.rows) :
        /\ InBounds(Filled(frame, "SOC", i), -5, 101)
        /\ InBounds(Filled(frame, "Cell temp mid", i), -30, 70)}

\* r is the integer nearest to the cell's value, the even one at a tie
Nearest(r, cell) ==
    \E x \in cell : \E n \in r :
        /\ 2 * n - x \in {-1, 0, 1}
        /\ 2 * n # x => n % 2 = 0

BothColumns(frame) ==
    HasColumn(frame.columns, "SOC") /\ HasColumn(frame.columns, "Cell temp mid")

\* C8: on a cache miss the recorded summary comes from the first row, in
\* file order, that remains after forward-fill then back-fill of SOC and
\* Cell temp mid and after dropping the rows outside SOC [-5,101] and
\* temperature [-30,70] (its values rounded to integers); when no row
\* remains, both summary values are null.
C8_FirstRemainingRow ==
    (metadata # Pending /\ BothColumns(df)) =>
        LET rem == Remaining(df)
        IN  IF rem = {}
            THEN metadata["SOC"] = None /\ metadata["Cell temp mid"] = None
            ELSE LET first == CHOOSE i \in rem : \A k \in rem : i <= k
                 IN  /\ Nearest(metadata["SOC"], Filled(df, "SOC", first))
                     /\ Nearest(metadata["Cell temp mid"],
                                Filled(df, "Cell temp mid", first))

\* the spec's example file: rows (20, 25) then (21, 26) give SOC 20, 25 degrees
C8_Witness ==
    /\ df.columns = <<"SOC", "Cell temp mid">>
    /\ df.rows = <<Row(Num(40), Num(50)), Row(Num(42), Num(52))>>
    /\ metadata = Entry(<<"SOC", "Cell temp mid">>, {20}, {25})

\* C10: every row the metadata extractor keeps as valid is kept by the
\* series loader's validity filter too.
C10_LoaderKeepsExtractorRows ==
    loaded # Pending =>
        \A i \in 1..Len(ExtractorFrame(df).index) :
            \E k \in 1..Len(loaded.index) :
                loaded.index[k] = ExtractorFrame(df).index[i]

\* a summary value is a whole number between lo and hi
WholeWithin(value, lo, hi) ==
    /\ Cardinality(value) = 1
    /\ \A n \in value : n \in Int /\ lo <= n /\ n <= hi

\* C25: the entry the metadata extractor writes for a file has SOC and Cell
\* temp mid both null, or both integers with SOC in [-5,101] and Cell temp
\* mid in [-30,70], also when the first valid row's values are fractional
\* and are rounded.
C25_EntryNullOrInBounds ==
    metadata # Pending =>
        \/ metadata["SOC"] = None /\ metadata["Cell temp mid"] = None
        \/ /\ WholeWithin(metadata["SOC"], -5, 101)
           /\ WholeWithin(metadata["Cell temp mid"], -30, 70)

\* the first valid row holds SOC 21.5 and, once filled, 25.5 degrees: the
\* entry records the rounded values 22 and 26
C25_Witness ==
    /\ df.columns = <<"SOC", "Cell temp mid">>
    /\ df.rows = <<Row(Num(43), NaN), Row(NaN, Num(51))>>
    /\ metadata = Entry(<<"SOC", "Cell temp mid">>, {22}, {26})

(***************************************************************************)
(* Smoothing runs: series of up to MaxSeries samples (shorter than, as     *)
(* long as and longer than the window) that are constant, step from one    *)
(* value to another, or hold one value that differs from the others.  The  *)
(* samples are written in the file as 5, 7, 5.5, -3 and 0.1, here in       *)
(* tenths; a series of whole numbers is taken both as an int64 and as a    *)
(* float64 column.  The series loader has filled the missing values of a   *)
(* column before it is smoothed.                                           *)
(***************************************************************************)
SampleValues == {50, 70, 55, -30, 1}

\* the column of pd.read_csv for the samples a (at the places the test
\* picks) and b
SampleColumn(dtype, n, a, b, Picked(_)) ==
    [dtype |-> dtype,
     values |-> IF dtype = "int64"
                THEN [i \in 1..n |-> IF Picked(i) THEN a \div 10 ELSE b \div 10]
                ELSE [i \in 1..n |-> IF Picked(i) THEN FromTenths(a) ELSE FromTenths(b)]]

SampleSeries(s) ==
    \E n \in 0..MaxSeries : \E k \in 0..n :
        \E a \in SampleValues, b \in SampleValues : \E dtype \in {"int64", "float64"} :
            /\ dtype = "int64" => (a % 10 = 0 /\ b % 10 = 0)
            /\ \/ s = SampleColumn(dtype, n, a, b, LAMBDA i : i <= k)
               \/ s = SampleColumn(dtype, n, a, b, LAMBDA i : i = k)

InitSmooth ==
    /\ SampleSeries(series)
    /\ smoothed = Pending
    /\ ClassifyIdle
    /\ MetaIdle
    /\ FilterIdle
    /\ PageIdle
    /\ HeaderIdle
    /\ DashIdle

\* lines 409, 419, 429, 441: one smoothing call of the plot loop
Smooth ==
    /\ smoothed = Pending
    /\ smoothed' = [kind |-> "array", values |-> uniform_filter1d(series, size).values]
    /\ UNCHANGED <<series, headerVars, classifyVars, metaVars, filterVars, pc, passVars, dashVars>>

NextSmooth == Smooth

SpecSmooth == InitSmooth /\ [][NextSmooth]_vars

IsConstant(x) == \A i \in 1..Len(x) : x[i] = x[1]

\* C18: the moving average with a window of 15 samples yields as many
\* samples as it is given, for series shorter than the window too, and
\* leaves every sample of a constant series at its value.
C18_SmoothingPreservesLengthAndConstants ==
    smoothed # Pending =>
        /\ Len(smoothed.values) = Len(series.values)
        /\ IsConstant(series.values) =>
               \A i \in 1..Len(smoothed.values) :
                   smoothed.values[i] = series.values[i]

(***************************************************************************)
(* The header of the worksheet (src/Dashboard.py, fetch_data).  A header   *)
(* cell is a sequence of tokens: a name, " " and "_" on their own, and a   *)
(* digit per token.                                                        *)
(***************************************************************************)
\* the cells fetch_data leaves out by name
ExcludedHeaders ==
    { <<"B">>, <<"G">>, <<"H">>, <<"I">>, <<"J">>, <<"O">>, <<"P">>, <<"W">>,
      <<"X">>, <<"Y">>, <<"AB">> }

\* the cell after which fetch_data stops reading the header
StopHeader == <<"DC Ratio">>

RECURSIVE FilterHeader(_, _)
\* the first loop over the header, from cell i on: filtered_header
FilterHeader(hdr, i) ==
    IF i > Len(hdr) THEN <<>>
    ELSE LET col == strip(hdr[i], Whitespace)
             kept == IF col # <<>> /\ ~startswith(col, <<"_">>) /\ col \notin ExcludedHeaders
                     THEN <<col>> ELSE <<>>
         IN  IF col = StopHeader THEN kept ELSE kept \o FilterHeader(hdr, i + 1)

Contains(list, x) == \E i \in 1..Len(list) : list[i] = x

RECURSIVE NewCol(_, _, _)
\* the while loop: the first col_suffix, counting from suffix, that is not
\* in unique_header yet
NewCol(col, unique, suffix) ==
    LET new_col == col \o <<"_">> \o str(suffix)
    IN  IF Contains(unique, new_col) THEN NewCol(col, unique, suffix + 1) ELSE new_col

RECURSIVE UniqueHeader(_, _)
\* the loop that fixes duplicate headers: unique_header
UniqueHeader(filtered, unique) ==
    IF filtered = <<>> THEN unique
    ELSE LET col == strip(Head(filtered), Whitespace)
         IN  UniqueHeader(Tail(filtered),
                          Append(unique, IF ~Contains(unique, col) THEN col
                                         ELSE NewCol(col, unique, 1)))

(***************************************************************************)
(* Header runs: every header of up to MaxHeaders cells drawn from a list   *)
(* with a plain name, names that end in a numeric suffix, a name with      *)
(* blanks around it, an excluded name, a name that starts with "_", an     *)
(* empty cell and the stop cell.                                           *)
(***************************************************************************)
SampleCells ==
    { <<"A">>, <<"A", "_", "1">>, <<" ", "A", " ">>, <<"B">>, <<"_", "A">>, <<>>,
      StopHeader }

InitHeader ==
    /\ \E n \in 0..MaxHeaders : header \in [1..n -> SampleCells]
    /\ unique_header = Pending
    /\ ClassifyIdle
    /\ MetaIdle
    /\ FilterIdle
    /\ PageIdle
    /\ SmoothIdle
    /\ DashIdle

\* fetch_data computes the column names of the DataFrame
FetchData ==
    /\ unique_header = Pending
    /\ unique_header' = [kind |-> "list",
                         names |-> UniqueHeader(FilterHeader(header, 1), <<>>)]
    /\ UNCHANGED <<header, smoothVars, classifyVars, metaVars, filterVars, pc, passVars, dashVars>>

NextHeader == FetchData

SpecHeader == InitHeader /\ [][NextHeader]_vars

\* the cells that become columns: those up to and including the stop cell
\* that are, once trimmed, non-empty, not excluded and not starting with "_"
KeptCells(hdr) ==
    {i \in 1..Len(hdr) :
        /\ \A j \in 1..(i - 1) : strip(hdr[j], Whitespace) # StopHeader
        /\ strip(hdr[i], Whitespace) # <<>>
        /\ strip(hdr[i], Whitespace)[1] # "_"
        /\ strip(hdr[i], Whitespace) \notin ExcludedHeaders}

\* C20: the column names are pairwise distinct, there is exactly one per
\* kept header cell, in the order of the cells, and the first occurrence of
\* each name is kept unchanged while a later occurrence is the name
\* followed by "_" and a number.
C20_DuplicateHeadersDisambiguated ==
    unique_header # Pending =>
        LET names == unique_header.names
            K == KeptCells(header)
            rank(i) == Cardinality({j \in K : j <= i})
            name(i) == strip(header[i], Whitespace)
        IN  /\ \A a, b \in 1..Len(names) : names[a] = names[b] => a = b
            /\ Len(names) = Cardinality(K)
            /\ \A i \in K :
                   IF \A j \in K : j < i => name(j) # name(i)
                   THEN names[rank(i)] = name(i)
                   ELSE \E n \in 1..Len(header) :
                            names[rank(i)] = name(i) \o <<"_">> \o str(n)

(***************************************************************************)
(* The remote file server.  In the sample URLs and hrefs a word that no     *)
(* operation looks into ("Tesla", "Model3", "smt") is written as one       *)
(* token; whatever an operation tests or splits at is spelled character by *)
(* character.                                                              *)
(***************************************************************************)
BASE_URL ==
    <<"h", "t", "t", "p", "s", ":", "/", "/", "nginx.eivissacopter.com", "/", "smt", "/">>

(***************************************************************************)
(* urllib.parse.urljoin (Python 3.11): the joined url, or the ValueError   *)
(* urlsplit raises for a netloc it rejects.                                *)
(***************************************************************************)
\* urllib.parse.uses_relative
uses_relative ==
    { <<>>,
      <<"f", "t", "p">>,
      <<"h", "t", "t", "p">>,
      <<"g", "o", "p", "h", "e", "r">>,
      <<"n", "n", "t", "p">>,
      <<"i", "m", "a", "p">>,
      <<"w", "a", "i", "s">>,
      <<"f", "i", "l", "e">>,
      <<"h", "t", "t", "p", "s">>,
      <<"s", "h", "t", "t", "p">>,
      <<"m", "m", "s">>,
      <<"p", "r", "o", "s", "p", "e", "r", "o">>,
      <<"r", "t", "s", "p">>,
      <<"r", "t", "s", "p", "s">>,
      <<"r", "t", "s", "p", "u">>,
      <<"s", "f", "t", "p">>,
      <<"s", "v", "n">>,
      <<"s", "v", "n", "+", "s", "s", "h">>,
      <<"w", "s">>,
      <<"w", "s", "s">> }

\* urllib.parse.uses_netloc
uses_netloc ==
    { <<>>,
      <<"f", "t", "p">>,
      <<"h", "t", "t", "p">>,
      <<"g", "o", "p", "h", "e", "r">>,
      <<"n", "n", "t", "p">>,
      <<"t", "e", "l", "n", "e", "t">>,
      <<"i", "m", "a", "p">>,
      <<"w", "a", "i", "s">>,
      <<"f", "i", "l", "e">>,
      <<"m", "m", "s">>,
      <<"h", "t", "t", "p", "s">>,
      <<"s", "h", "t", "t", "p">>,
      <<"s", "n", "e", "w", "s">>,
      <<"p", "r", "o", "s", "p", "e", "r", "o">>,
      <<"r", "t", "s", "p">>,
      <<"r", "t", "s", "p", "s">>,
      <<"r", "t", "s", "p", "u">>,
      <<"r", "s", "y", "n", "c">>,
      <<"s", "v", "n">>,
      <<"s", "v", "n", "+", "s", "s", "h">>,
      <<"s", "f", "t", "p">>,
      <<"n", "f", "s">>,
      <<"g", "i", "t">>,
      <<"g", "i", "t", "+", "s", "s", "h">>,
      <<"w", "s">>,
      <<"w", "s", "s">> }

\* urllib.parse.uses_params
uses_params ==
    { <<>>,
      <<"f", "t", "p">>,
      <<"h", "d", "l">>,
      <<"p", "r", "o", "s", "p", "e", "r", "o">>,
      <<"h", "t", "t", "p">>,
      <<"i", "m", "a", "p">>,
      <<"h", "t", "t", "p", "s">>,
      <<"s", "h", "t", "t", "p">>,
      <<"r", "t", "s", "p">>,
      <<"r", "t", "s", "p", "s">>,
      <<"r", "t", "s", "p", "u">>,
      <<"s", "i", "p">>,
      <<"s", "i", "p", "s">>,
      <<"m", "m", "s">>,
      <<"s", "f", "t", "p">>,
      <<"t", "e", "l">> }

\* the position of the first c of s at or after position start, 0 when
\* there is none
Find(s, c, start) ==
    IF \E i \in start..Len(s) : s[i] = c
    THEN CHOOSE i \in start..Len(s) : s[i] = c /\ \A j \in start..(i - 1) : s[j] # c
    ELSE 0

\* the position of the last c of s, 0 when there is none
RFind(s, c) ==
    IF \E i \in 1..Len(s) : s[i] = c
    THEN CHOOSE i \in 1..Len(s) : s[i] = c /\ \A j \in (i + 1)..Len(s) : s[j] # c
    ELSE 0

RECURSIVE Split(_, _)
\* s.split(c)
Split(s, c) ==
    LET i == Find(s, c, 1)
    IN  IF i = 0 THEN <<s>>
        ELSE <<Slice(s, 1, i - 1)>> \o Split(Slice(s, i + 1, Len(s)), c)

RECURSIVE lstrip(_, _)
\* s.lstrip(chars)
lstrip(s, chars) ==
    IF s # <<>> /\ Head(s) \in chars THEN lstrip(Tail(s), chars) ELSE s

\* str.isascii() and str.isalpha() of one character
IsAsciiAlpha(c) == \E i \in (34..59) \cup (66..91) : Printable[i] = c

\* urllib.parse.scheme_chars
scheme_chars ==
    {Printable[i] : i \in (34..59) \cup (66..91) \cup (17..26)} \cup {"+", "-", "."}

\* str.lower() of one character
lower(c) ==
    IF \E i \in 34..59 : Printable[i] = c
    THEN Printable[(CHOOSE i \in 34..59 : Printable[i] = c) + 32]
    ELSE c

\* _WHATWG_C0_CONTROL_OR_SPACE
C0_CONTROL_OR_SPACE == {chr(n) : n \in 0..32}

\* _UNSAFE_URL_BYTES_TO_REMOVE: tab, carriage return, line feed
UNSAFE_URL_BYTES_TO_REMOVE == {"<09>", "<0D>", "<0A>"}

\* IPv4Address._parse_octet: a decimal number up to 255 of at most three
\* ASCII digits, without a leading zero
IsOctet(octet) ==
    /\ Len(octet) \in 1..3
    /\ \A i \in 1..Len(octet) : \E d \in 1..10 : DecimalDigits[d] = octet[i]
    /\ octet[1] = "0" => octet = <<"0">>
    /\ \E v \in 0..255 : str(v) = octet

\* IPv4Address(text) does not raise
IsIPv4(text) ==
    /\ Len(Split(text, ".")) = 4
    /\ \A i \in 1..4 : IsOctet(Split(text, ".")[i])

\* IPv6Address._parse_hextet: one to four hexadecimal digits
IsHextet(hextet) ==
    /\ Len(hextet) \in 1..4
    /\ \A i \in 1..Len(hextet) : IsHex(hextet[i])

\* _ip_int_from_string from the search for '::' on: skips holds the empty
\* parts between the first and the last, n is len(parts)
HextetsValid(parts, n, skips) ==
    /\ n <= 9
    /\ Cardinality(skips) <= 1
    /\ IF skips # {}
       THEN \E skip \in skips :
                \E parts_hi \in {IF parts[1] = <<>> THEN skip - 2 ELSE skip - 1} :
                    \E parts_lo \in {IF parts[n] = <<>> THEN n - skip - 1 ELSE n - skip} :
                        /\ parts[1] = <<>> => parts_hi = 0
                        /\ parts[n] = <<>> => parts_lo = 0
                        /\ 8 - (parts_hi + parts_lo) >= 1
                        /\ \A i \in 1..parts_hi : IsHextet(parts[i])
                        /\ \A i \in (n - parts_lo + 1)..n : IsHextet(parts[i])
       ELSE /\ n = 8
            /\ \A i \in 1..n : IsHextet(parts[i])

\* _ip_int_from_string on the parts between the colons: a last part with a
\* dot is an IPv4 address and stands for two hextets
PartsValid(parts) ==
    /\ Len(parts) >= 3
    /\ IF Contains(parts[Len(parts)], ".")
       THEN /\ IsIPv4(parts[Len(parts)])
            /\ HextetsValid(SubSeq(parts, 1, Len(parts) - 1) \o << <<"0">>, <<"0">> >>,
                            Len(parts) + 1,
                            {i \in 2..(Len(parts) - 1) : parts[i] = <<>>})
       ELSE HextetsValid(parts, Len(parts),
                         {i \in 2..(Len(parts) - 1) : parts[i] = <<>>})

\* IPv6Address(text) does not raise: pct is the position of the first "%",
\* which starts the scope id
IsIPv6(text, pct) ==
    /\ ~Contains(text, "/")
    /\ pct > 0 => /\ pct < Len(text)
                  /\ ~Contains(Slice(text, pct + 1, Len(text)), "%")
    /\ PartsValid(Split(IF pct > 0 THEN Slice(text, 1, pct - 1) ELSE text, ":"))

\* _check_bracketed_host does not raise: an IPvFuture address after a "v",
\* an IPv6 address otherwise (ip_address accepts an IPv4 address too, which
\* is then rejected)
BracketedHostValid(hostname) ==
    IF hostname # <<>> /\ hostname[1] = "v"
    THEN \E dot \in 3..(Len(hostname) - 1) :
             /\ hostname[dot] = "."
             /\ \A i \in 2..(dot - 1) : IsHex(hostname[i])
    ELSE IsIPv6(hostname, Find(hostname, "%", 1))

\* netloc.partition('[')[2].partition(']')[0]
BracketedHost(after) ==
    IF Find(after, "]", 1) > 0 THEN Slice(after, 1, Find(after, "]", 1) - 1) ELSE after

\* the characters whose NFKC normalization holds one of / ? # @ :
\* (Unicode 14, the version of Python 3.11)
NFKC_UNSAFE ==
    {chr(n) : n \in {8263, 8264, 8265, 8448, 8449, 8453, 8454, 10868, 65043, 65046,
                     65109, 65110, 65119, 65131, 65283, 65295, 65306, 65311, 65312}}

\* urlsplit raises ValueError for the netloc: a bracket without the other
\* one, a bracketed host that is no address, or (_checknetloc) a character
\* that normalizes to a delimiter
NetlocRaises(netloc) ==
    \/ Contains(netloc, "[") /\ ~Contains(netloc, "]")
    \/ Contains(netloc, "]") /\ ~Contains(netloc, "[")
    \/ /\ Contains(netloc, "[") /\ Contains(netloc, "]")
       /\ ~BracketedHostValid(BracketedHost(Slice(netloc, Find(netloc, "[", 1) + 1,
                                                  Len(netloc))))
    \/ \E i \in 1..Len(netloc) : netloc[i] \in NFKC_UNSAFE

\* the query and the path of what stands before the fragment
SplitQuery(scheme, netloc, before, fragment) ==
    LET mark == Find(before, "?", 1)
    IN  [scheme |-> scheme, netloc |-> netloc,
         path |-> IF mark > 0 THEN Slice(before, 1, mark - 1) ELSE before,
         query |-> IF mark > 0 THEN Slice(before, mark + 1, Len(before)) ELSE <<>>,
         fragment |-> fragment]

\* the fragment of what stands after the netloc
SplitFragment(scheme, netloc, after) ==
    LET hash == Find(after, "#", 1)
    IN  SplitQuery(scheme, netloc,
                   IF hash > 0 THEN Slice(after, 1, hash - 1) ELSE after,
                   IF hash > 0 THEN Slice(after, hash + 1, Len(after)) ELSE <<>>)

\* _splitnetloc(url, 2) of what stands after the scheme
SplitNetloc(scheme, rest) ==
    LET has_netloc == Len(rest) >= 2 /\ rest[1] = "/" /\ rest[2] = "/"
        delims == {i \in 3..Len(rest) : rest[i] \in {"/", "?", "#"}}
        delim == IF delims = {} THEN Len(rest) + 1
                 ELSE CHOOSE i \in delims : \A j \in delims : i <= j
    IN  SplitFragment(scheme,
                      IF has_netloc THEN Slice(rest, 3, delim - 1) ELSE <<>>,
                      IF has_netloc THEN Slice(rest, delim, Len(rest)) ELSE rest)

\* the scheme of the cleaned url: the characters before the first colon,
\* when they are scheme characters after a letter
SplitScheme(url, colon, default_scheme) ==
    LET has_scheme ==
            /\ colon > 1
            /\ IsAsciiAlpha(url[1])
            /\ \A k \in 1..(colon - 1) : url[k] \in scheme_chars
    IN  SplitNetloc(IF has_scheme THEN [k \in 1..(colon - 1) |-> lower(url[k])]
                    ELSE default_scheme,
                    IF has_scheme THEN Slice(url, colon + 1, Len(url)) ELSE url)

\* the url without the characters urlsplit removes
CleanUrl(stripped) ==
    SelectSeq(stripped, LAMBDA c : c \notin UNSAFE_URL_BYTES_TO_REMOVE)

FindScheme(url, default_scheme) == SplitScheme(url, Find(url, ":", 1), default_scheme)

\* the split url, unless its netloc raises
CheckNetloc(split) ==
    IF NetlocRaises(split.netloc) THEN [raised |-> "ValueError"]
    ELSE [raised |-> "none", value |-> split]

urlsplit(text, default_scheme) ==
    CheckNetloc(FindScheme(CleanUrl(lstrip(text, C0_CONTROL_OR_SPACE)), default_scheme))

\* _splitparams(url) of the path of a split url, for the schemes with params
SplitParams(r, slash) ==
    LET i == IF slash > 0 THEN Find(r.path, ";", slash) ELSE Find(r.path, ";", 1)
        split == r.scheme \in uses_params /\ Find(r.path, ";", 1) > 0 /\ i > 0
    IN  [scheme |-> r.scheme, netloc |-> r.netloc,
         path |-> IF split THEN Slice(r.path, 1, i - 1) ELSE r.path,
         params |-> IF split THEN Slice(r.path, i + 1, Len(r.path)) ELSE <<>>,
         query |-> r.query, fragment |-> r.fragment]

ParseSplit(split) ==
    IF split.raised # "none" THEN split
    ELSE [raised |-> "none", value |-> SplitParams(split.value, RFind(split.value.path, "/"))]

urlparse(text, default_scheme) == ParseSplit(urlsplit(text, default_scheme))

\* urlunsplit
urlunsplit(scheme, netloc, url0, query, fragment) ==
    (IF scheme # <<>> THEN scheme \o <<":">> ELSE <<>>)
        \o (IF \/ netloc # <<>>
               \/ /\ scheme # <<>> /\ scheme \in uses_netloc
                  /\ ~(Len(url0) >= 2 /\ url0[1] = "/" /\ url0[2] = "/")
            THEN <<"/", "/">> \o netloc
                     \o (IF url0 # <<>> /\ url0[1] # "/" THEN <<"/">> ELSE <<>>)
            ELSE <<>>)
        \o url0
        \o (IF query # <<>> THEN <<"?">> \o query ELSE <<>>)
        \o (IF fragment # <<>> THEN <<"#">> \o fragment ELSE <<>>)

urlunparse(scheme, netloc, path, params, query, fragment) ==
    urlunsplit(scheme, netloc,
               IF params # <<>> THEN path \o <<";">> \o params ELSE path,
               query, fragment)

RECURSIVE Resolve(_, _)
\* the loop over the segments: ".." drops the segment before it (none: it is
\* ignored), "." is skipped
Resolve(segments, resolved_path) ==
    IF segments = <<>> THEN resolved_path
    ELSE IF Head(segments) = <<".", ".">>
         THEN Resolve(Tail(segments),
                      IF resolved_path = <<>> THEN <<>>
                      ELSE SubSeq(resolved_path, 1, Len(resolved_path) - 1))
    ELSE IF Head(segments) = <<".">>
         THEN Resolve(Tail(segments), resolved_path)
    ELSE Resolve(Tail(segments), Append(resolved_path, Head(segments)))

\* segments[1:-1] = filter(None, segments[1:-1])
FilterSegments(all) ==
    IF Len(all) <= 2 THEN all
    ELSE <<all[1]>> \o SelectSeq(SubSeq(all, 2, Len(all) - 1), LAMBDA x : x # <<>>)
                    \o <<all[Len(all)]>>

\* base_parts without its last segment when that is not empty
DirParts(base_parts) ==
    IF base_parts[Len(base_parts)] # <<>>
    THEN SubSeq(base_parts, 1, Len(base_parts) - 1)
    ELSE base_parts

\* the resolved segments, with an empty one after a final "." or ".."
ResolvedPath(segments, resolved) ==
    IF segments[Len(segments)] \in {<<".">>, <<".", ".">>}
    THEN Append(resolved, <<>>)
    ELSE resolved

JoinSegments(segments) == Join(ResolvedPath(segments, Resolve(segments, <<>>)), "/")

\* the path of the joined url
JoinedPath(base_path, path) ==
    JoinSegments(IF path # <<>> /\ path[1] = "/" THEN Split(path, "/")
                 ELSE FilterSegments(DirParts(Split(base_path, "/")) \o Split(path, "/")))

OrSlash(joined) == IF joined = <<>> THEN <<"/">> ELSE joined

\* urljoin of the parsed base b and the parsed reference u
JoinParsed(b, u, href) ==
    IF u.scheme # b.scheme \/ u.scheme \notin uses_relative THEN href
    ELSE IF u.scheme \in uses_netloc /\ u.netloc # <<>>
    THEN urlunparse(u.scheme, u.netloc, u.path, u.params, u.query, u.fragment)
    ELSE IF u.path = <<>> /\ u.params = <<>>
    THEN urlunparse(u.scheme, IF u.scheme \in uses_netloc THEN b.netloc ELSE u.netloc,
                    b.path, b.params,
                    IF u.query = <<>> THEN b.query ELSE u.query, u.fragment)
    ELSE urlunparse(u.scheme, IF u.scheme \in uses_netloc THEN b.netloc ELSE u.netloc,
                    OrSlash(JoinedPath(b.path, u.path)),
                    u.params, u.query, u.fragment)

\* urljoin once the reference is parsed
JoinReference(b, u, href) ==
    IF u.raised # "none" THEN u
    ELSE [raised |-> "none", value |-> JoinParsed(b, u.value, href)]

\* urljoin once the base is parsed
JoinBase(b, href) ==
    IF b.raised # "none" THEN b
    ELSE JoinReference(b.value, urlparse(href, b.value.scheme), href)

urljoin(base, href) ==
    IF base = <<>> THEN [raised |-> "none", value |-> href]
    ELSE IF href = <<>> THEN [raised |-> "none", value |-> base]
    ELSE JoinBase(urlparse(base, <<>>), href)

\* lines 73-76: the folder is appended when its name matches
Classification(c, full_path, rest) ==
    IF rest.raised # "none" THEN rest
    ELSE [raised |-> "none",
          value |-> IF c.kind = "record"
                    THEN <<c.d @@ ("path" :> full_path)>> \o rest.value
                    ELSE rest.value]

RECURSIVE ClassifyDirs(_, _)
\* line 72: the path of the href, joined before its name is looked at
ClassifyDir(base_url, dirs, full_path) ==
    IF full_path.raised # "none" THEN full_path
    ELSE Classification(classify_folder(strip(Head(dirs), {"/"})), full_path.value,
                        ClassifyDirs(base_url, Tail(dirs)))

\* lines 69-77 without the request: join and classify every directory
\* href, keep the ones that match, each with its path; the ValueError of a
\* urljoin ends the loop
ClassifyDirs(base_url, dirs) ==
    IF dirs = <<>> THEN [raised |-> "none", value |-> <<>>]
    ELSE ClassifyDir(base_url, dirs, urljoin(base_url, Head(dirs)))

(***************************************************************************)
(* Attribute filtering (lines 240-242)                                     *)
(***************************************************************************)
\* a folder passes when any one selection holds (instead of all of them)
PassesAny(f, filters) ==
    \E k \in DOMAIN filters : k \in DOMAIN f /\ f[k] \in filters[k]

\* all(f[k] in v for k, v in selected_filters.items() if k in f)
Passes(f, filters) ==
    \A k \in DOMAIN filters : k \in DOMAIN f => f[k] \in filters[k]

RECURSIVE FilterFolders(_, _)
\* [f for f in classified_folders if all(...)]
FilterFolders(folders, filters) ==
    IF folders = <<>> THEN <<>>
    ELSE IF Passes(Head(folders), filters)
         THEN <<Head(folders)>> \o FilterFolders(Tail(folders), filters)
         ELSE FilterFolders(Tail(folders), filters)

(***************************************************************************)
(* Filter runs: every list of up to MaxFolders folders drawn from four     *)
(* classified names, under every selection over model, tuning and          *)
(* acceleration_mode (values no folder has included).                      *)
(***************************************************************************)
FolderName(model, tuning, mode) ==
    <<"Tesla", "_", model, "_", "LR", "_", "2", "0", "2", "2", "_",
      "Panasonic3", "_", "Dual", "_", "Dual", "_">> \o tuning \o <<"_", mode>>

Stage1 == <<"Stage", "%", "2", "0", "1">>

SampleDirs ==
    { FolderName("Model3", <<"Stock">>, "Sport") \o <<"/">>,
      FolderName("Model3", Stage1, "Chill") \o <<"/">>,
      FolderName("ModelY", <<"Stock">>, "Sport") \o <<"/">>,
      FolderName("ModelY", <<"Stock">>, "Chill") \o <<"/">> }

SampleSelections ==
    { [k \in K |-> choice[k]] :
        K \in SUBSET {"model", "tuning", "acceleration_mode"},
        choice \in
            [ model : (SUBSET {<<"Model3">>, <<"ModelY">>, <<"ModelS">>}) \ {{}},
              tuning : {{<<"Stock">>}, {<<"Stage", " ", "1">>}, {<<"Stage", "%", "2", "0", "1">>}},
              acceleration_mode :
                  (SUBSET {<<"Chill">>, <<"Standard">>, <<"Sport">>}) \ {{}} ] }

InitFilter ==
    /\ \E n \in 0..MaxFolders : \E dirs \in [1..n -> SampleDirs] :
           classified_folders = ClassifyDirs(BASE_URL, dirs).value
    /\ selected_filters \in SampleSelections
    /\ filtered_folders = <<>>
    /\ pc = "filters"
    /\ PassIdle
    /\ ClassifyIdle
    /\ MetaIdle
    /\ SmoothIdle
    /\ HeaderIdle
    /\ DashIdle

\* lines 240-242 on the folders and selections of the run
ApplyFilters ==
    /\ pc = "filters"
    /\ filtered_folders' = FilterFolders(classified_folders, selected_filters)
    /\ pc' = "collect"
    /\ UNCHANGED <<classified_folders, selected_filters, classifyVars, smoothVars, headerVars, metaVars, passVars, dashVars>>

NextFilter == ApplyFilters

SpecFilter == InitFilter /\ [][NextFilter]_vars

\* the positions of the folders whose value is among the selected ones for
\* every attribute that has a selection
Selected(folders, filters) ==
    {i \in 1..Len(folders) :
        \A k \in DOMAIN filters : folders[i][k] \in filters[k]}

\* s is t restricted to the positions P, in the order of t
IsRestriction(s, t, P) ==
    /\ Len(s) = Cardinality(P)
    /\ \A i \in 1..Len(s) :
           \E p \in P : /\ s[i] = t[p]
                        /\ Cardinality({q \in P : q <= p}) = i

\* C5: a folder is in the filtered list exactly when, for every attribute
\* with a selection, its value is among the selected values (the list keeps
\* the input order); so no selection at all gives the input list back, and a
\* single selected value that no folder has gives the empty list.
C5_ConjunctiveDisjunctive ==
    pc = "collect" =>
        /\ IsRestriction(filtered_folders, classified_folders,
                         Selected(classified_folders, selected_filters))
        /\ DOMAIN selected_filters = {} => filtered_folders = classified_folders
        /\ (\E k \in DOMAIN selected_filters :
                \A i \in 1..Len(classified_folders) :
                    classified_folders[i][k] \notin selected_filters[k])
               => filtered_folders = <<>>

\* two attributes selected, two values for one of them, and a folder passes
\* while another is filtered out
C5_Witness ==
    /\ pc = "collect"
    /\ Cardinality(DOMAIN selected_filters) >= 2
    /\ \E k \in DOMAIN selected_filters : Cardinality(selected_filters[k]) >= 2
    /\ filtered_folders # <<>>
    /\ Len(filtered_folders) < Len(classified_folders)

(***************************************************************************)
(* The page.  One pass of the script is a sequence of steps; every request *)
(* is answered with status 200 ("ok"), answered with another status        *)
(* ("http_error") or raises ("exception").                                 *)
(***************************************************************************)
Outcomes == {"ok", "http_error", "exception"}

CSV == <<".", "c", "s", "v">>

Dir1 == FolderName("Model3", <<"Stock">>, "Sport") \o <<"/">>
Dir2 == FolderName("ModelY", <<"Stock">>, "Chill") \o <<"/">>

\* the hrefs of the anchors of the root index page, in page order
RootAnchors ==
    << <<".", ".", "/">>, Dir1, Dir2, <<"BadName", "/">>, <<"readme", ".", "t", "x", "t">> >>

\* a subdirectory of the first folder, with a data file of its own
SubDir == <<"sub", "/">>

\* the addresses of the server: the two folders, the subdirectory and the
\* data files
UrlDir1 == BASE_URL \o Dir1
UrlDir2 == BASE_URL \o Dir2
UrlSubDir == BASE_URL \o Dir1 \o SubDir

UrlA == BASE_URL \o Dir1 \o <<"a">> \o CSV
UrlB == BASE_URL \o Dir1 \o <<"b">> \o CSV
UrlC == BASE_URL \o Dir2 \o <<"c">> \o CSV
UrlD == BASE_URL \o Dir2 \o <<"d">> \o CSV

UrlE == BASE_URL \o Dir1 \o SubDir \o <<"e">> \o CSV

\* the hrefs of the anchors of a folder's index page
FolderAnchors(path) ==
    IF path = UrlDir1
    THEN << <<".", ".", "/">>, <<"a">> \o CSV, <<"b">> \o CSV, SubDir >>
    ELSE IF path = UrlDir2
    THEN << <<".", ".", "/">>, <<"c">> \o CSV, <<"d">> \o CSV >>
    ELSE IF path = UrlSubDir
    THEN << <<".", ".", "/">>, <<"e">> \o CSV >>
    ELSE <<>>

SeriesRow(soc, temp, speed, power, max_power) ==
    Row(soc, temp) @@ ("Speed" :> speed) @@ ("Battery power" :> power)
        @@ ("Max discharge power" :> max_power)

\* pd.read_csv (line 388): the frame with the dtype of each column.  A
\* column is int64 when every cell is written as a whole number, float64
\* when a cell is missing or written with a decimal point, object in a
\* file without a row; decimals holds the columns of the file whose
\* numbers are written with a decimal point
read_csv(columns, rows, decimals) ==
    [columns |-> columns,
     index   |-> Frame(columns, rows).index,
     rows    |-> Frame(columns, rows).rows,
     dtypes  |-> [c \in {columns[k] : k \in 1..Len(columns)} |->
                     IF rows = <<>> THEN "object"
                     ELSE IF /\ c \notin decimals
                             /\ \A i \in 1..Len(rows) : \E x \in rows[i][c] : x % 2 = 0
                     THEN "int64" ELSE "float64"]]

\* the parsed content of the data files: a.csv is the spec's example (rows
\* (20, 25, 10, 5) and (21, 26, 20, 7)), b.csv has no SOC column, c.csv has
\* missing values, a Battery power column written with a decimal point
\* (4.0, 6.0), a Max discharge power column and the two motor power
\* columns, d.csv has no valid row
Content(url) ==
    IF url = UrlA
    THEN read_csv(<<"SOC", "Cell temp mid", "Speed", "Battery power">>,
                  <<SeriesRow(Num(40), Num(50), Num(20), Num(10), NaN),
                    SeriesRow(Num(42), Num(52), Num(40), Num(14), NaN)>>, {})
    ELSE IF url = UrlB
    THEN read_csv(<<"Cell temp mid">>, <<Row(NaN, Num(50))>>, {})
    ELSE IF url = UrlC
    THEN read_csv(<<"SOC", "Cell temp mid", "Speed", "Battery power", "Max discharge power",
                    "F power", "R power">>,
                  <<SeriesRow(NaN, Num(51), Num(30), Num(8), Num(600))
                        @@ ("F power" :> Num(3)) @@ ("R power" :> Num(5)),
                    SeriesRow(Num(43), NaN, Num(50), Num(12), Num(601))
                        @@ ("F power" :> Num(4)) @@ ("R power" :> Num(8))>>,
                  {"Battery power"})
    ELSE read_csv(<<"SOC", "Cell temp mid">>, <<Row(Num(203), Num(140))>>, {})

\* what pd.read_csv makes of an error page when it parses at all: one
\* column named after the first line, no required column
ErrorPageFrame ==
    [columns |-> <<"<html>">>, index |-> <<>>, rows |-> <<>>,
     dtypes |-> [c \in {"<html>"} |-> "object"]]

RECURSIVE SelectEnding(_, _)
\* [a['href'] for a in soup.find_all('a', href=True) if a['href'].endswith(c)]
SelectEnding(hrefs, c) ==
    IF hrefs = <<>> THEN <<>>
    ELSE IF endswith(Head(hrefs), c)
         THEN <<Head(hrefs)>> \o SelectEnding(Tail(hrefs), c)
         ELSE SelectEnding(Tail(hrefs), c)

\* lines 69-77 on an answered root request
scan_and_classify_folders(base_url) ==
    ClassifyDirs(base_url, SelectEnding(RootAnchors, <<"/">>))

(***************************************************************************)
(* The sidebar (lines 91-200)                                              *)
(***************************************************************************)
\* get_unique_values, as a set
get_unique_values(folders, key, filters) ==
    {folders[i][key] : i \in {j \in 1..Len(folders) :
                                 Passes(folders[j], filters) /\ key \in DOMAIN folders[j]}}

acceleration_modes_ordered == {<<"Chill">>, <<"Standard">>, <<"Sport">>}

\* the attribute pickers in the order of the sidebar
PickerKeys ==
    <<"model", "variant", "model_year", "battery", "front_motor", "rear_motor",
      "tuning", "acceleration_mode">>

\* the picker the user of the model touches; the others keep their default
UserKeys == {"model"}

\* the default of a picker: its only option when it has a single one
Default(options) == IF Cardinality(options) = 1 THEN options ELSE {}

\* the values picker k offers when the pickers before it ended with filters:
\* the values of the folders that pass them, but the fixed list of line 197
\* for acceleration_mode
Options(folders, key, filters) ==
    IF key = "acceleration_mode" THEN acceleration_modes_ordered
    ELSE get_unique_values(folders, key, filters)

RECURSIVE CascadeBy(_, _, _, _)
\* the selections the sidebar can end with when the user touches the
\* pickers in keys and leaves the others at their default; a picker with
\* nothing selected adds no key
CascadeBy(folders, k, filters, keys) ==
    IF k > Len(PickerKeys) THEN {filters}
    ELSE LET key == PickerKeys[k]
             options == Options(folders, key, filters)
             choices == IF key \in keys THEN SUBSET options
                        ELSE {Default(options)}
         IN  UNION { CascadeBy(folders, k + 1,
                               IF sel = {} THEN filters ELSE filters @@ (key :> sel),
                               keys)
                     : sel \in choices }

\* the selections the sidebar can end with for the user of the page model
Cascade(folders, k, filters) == CascadeBy(folders, k, filters, UserKeys)

(***************************************************************************)
(* Sidebar runs: every list of one to MaxFolders folders drawn from the    *)
(* sample names, with one picker touched by the user, who selects a single *)
(* value among those the picker offers.                                    *)
(***************************************************************************)
InitSidebar ==
    /\ \E n \in 1..MaxFolders : \E dirs \in [1..n -> SampleDirs] :
           classified_folders = ClassifyDirs(BASE_URL, dirs).value
    /\ selected_filters = NoFilters
    /\ filtered_folders = <<>>
    /\ pc = "filters"
    /\ PassIdle
    /\ ClassifyIdle
    /\ MetaIdle
    /\ SmoothIdle
    /\ HeaderIdle
    /\ DashIdle

\* lines 153-200 and 240-242: the user selects the single value v in the
\* picker of key, the other pickers keep their default
PickValue(key, v) ==
    /\ pc = "filters"
    /\ \E filters \in CascadeBy(classified_folders, 1, NoFilters, {key}) :
           /\ key \in DOMAIN filters
           /\ filters[key] = {v}
           /\ selected_filters' = filters
           /\ filtered_folders' = FilterFolders(classified_folders, filters)
    /\ pc' = "collect"
    /\ UNCHANGED <<classified_folders, classifyVars, smoothVars, headerVars, metaVars, passVars, dashVars>>

\* every value a picker can show
PickerValues ==
    acceleration_modes_ordered
        \cup UNION { get_unique_values(classified_folders, key, NoFilters) :
                     key \in AttributeKeys }

NextSidebar ==
    \E k \in 1..Len(PickerKeys), v \in PickerValues : PickValue(PickerKeys[k], v)

SpecSidebar == InitSidebar /\ [][NextSidebar]_vars

\* the selections made in the pickers before the one of key
Earlier(filters, key) ==
    LET before == {PickerKeys[j] : j \in {i \in 1..Len(PickerKeys) :
                       \E k \in i + 1..Len(PickerKeys) : PickerKeys[k] = key}}
    IN  [k \in (DOMAIN filters) \cap before |-> filters[k]]

\* C24: after the sidebar ran with a single offered value selected in one
\* picker, every value each picker offered is the value of a classified
\* folder that passes the selections of the pickers before it, and the
\* filtered folder list is not empty.
C24_OfferedValuesKeepAFolder ==
    pc = "collect" =>
        /\ \A k \in 1..Len(PickerKeys) :
               LET key == PickerKeys[k]
                   earlier == Earlier(selected_filters, key)
               IN  \A v \in Options(classified_folders, key, earlier) :
                       \E i \in 1..Len(classified_folders) :
                           /\ Passes(classified_folders[i], earlier)
                           /\ classified_folders[i][key] = v
        /\ filtered_folders # <<>>

(***************************************************************************)
(* The collection loop and the sliders (lines 244-298)                     *)
(***************************************************************************)
\* every file is taken, whatever its headers and summary
IncludesAlways(entry) == TRUE

\* lines 256-258: the file has both required headers and a non-null summary
Includes(entry) ==
    /\ HasColumn(entry["headers"], "SOC")
    /\ HasColumn(entry["headers"], "Cell temp mid")
    /\ entry["SOC"] # None
    /\ entry["Cell temp mid"] # None

\* lines 260-267
FileInfo(file_url, entry, file, folder) ==
    [path |-> file_url,
     SOC |-> entry["SOC"],
     temp |-> entry["Cell temp mid"],
     name |-> LET parts == Split(file, "/")
              IN  replace(parts[Len(parts)], CSV, <<>>),
     folder |-> folder]

\* lo < value < hi
InRangeOpen(value, range) == \E x \in value : range[1] < x /\ x < range[2]

\* lo <= value <= hi
InRange(value, range) == \E x \in value : range[1] <= x /\ x <= range[2]

RECURSIVE FilterFileInfo(_, _, _)
\* lines 294-298
FilterFileInfo(infos, soc_range, temp_range) ==
    IF infos = <<>> THEN <<>>
    ELSE IF InRange(Head(infos).SOC, soc_range) /\ InRange(Head(infos).temp, temp_range)
         THEN <<Head(infos)>> \o FilterFileInfo(Tail(infos), soc_range, temp_range)
         ELSE FilterFileInfo(Tail(infos), soc_range, temp_range)

Min(S) == CHOOSE x \in S : \A y \in S : x <= y
Max(S) == CHOOSE x \in S : \A y \in S : y <= x

\* the values a slider (or the fixed pair when min = max) can return
SliderValues(S) ==
    IF Min(S) = Max(S) THEN {<<Min(S), Max(S)>>}
    ELSE {r \in (Min(S)..Max(S)) \X (Min(S)..Max(S)) : r[1] <= r[2]}

Count(url) == IF url \in DOMAIN fetches THEN fetches[url] ELSE 0

\* requests.get(url), issued by the crawl ("scan"), the collection loop
\* ("list"), the metadata extractor ("extract") or the plot loop ("plot")
Request(url, outcome, by) == [url |-> url, outcome |-> outcome, by |-> by]

Fails(outcome) == outcome # "ok"

\* a request with this outcome is within the bounds of the run
Allowed(outcome) == Fails(outcome) => failures < MaxFailures

NoteOutcome(outcome) ==
    /\ failures' = IF Fails(outcome) THEN failures + 1 ELSE failures
    /\ failed_fetch' = (failed_fetch \/ Fails(outcome))

\* the last request of url failed, or an answered one clears the failure
NoteUrl(url, outcome) ==
    failed_urls' = IF Fails(outcome) THEN (url :> FALSE) @@ failed_urls
                   ELSE [u \in (DOMAIN failed_urls) \ {url} |-> failed_urls[u]]

\* an unhandled exception ends the pass
Crash(name) ==
    /\ pc' = "crashed"
    /\ error' = name

InitPage ==
    /\ PageIdle
    /\ ClassifyIdle
    /\ MetaIdle
    /\ FilterIdle
    /\ SmoothIdle
    /\ HeaderIdle
    /\ DashIdle

\* line 36: the script starts and loads metadata_cache.json
StartPass ==
    /\ pc = "idle"
    /\ pc' = "scan"
    /\ metadata_cache' = metadata_file
    /\ UNCHANGED <<error, messages, metadata_file, crawl_cache, loopVars, rangeVars,
                   historyVars, plotVars, logVars, classifyVars, smoothVars, headerVars, metaVars, filterVars, dashVars>>

\* lines 39-88: scan_and_classify_folders behind st.cache_data, then the
\* check for an empty result.  st.cache_data stores the st elements the
\* function emitted with its value and replays them on a hit.
ScanStep(outcome, hit, result, emitted, raised) ==
    /\ IF hit
       THEN outcome = "ok" /\ UNCHANGED <<failures, failed_fetch>>
       ELSE Allowed(outcome) /\ NoteOutcome(outcome)
    /\ IF raised # "none"
       THEN /\ Crash(raised)
            /\ UNCHANGED <<classified_folders, messages, crawl_cache>>
       ELSE /\ classified_folders' = result
            /\ crawl_cache' = [kind |-> "memo", value |-> result, elements |-> emitted]
            /\ messages' = messages \cup emitted
                       \cup (IF result = <<>>
                             THEN {"The directory structure is empty. No options available."}
                             ELSE {})
            /\ pc' = IF result = <<>> THEN "stopped" ELSE "filters"
            /\ UNCHANGED error
    /\ requests' = IF hit THEN requests
                   ELSE Append(requests, Request(BASE_URL, outcome, "scan"))
    /\ window_listings' = IF hit \/ raised # "none" THEN window_listings
                          ELSE {BASE_URL}
    /\ IF hit THEN UNCHANGED failed_urls ELSE NoteUrl(BASE_URL, outcome)

\* the call of line 88: the memoized folders, or what the function returns
\* or raises (scanned) for the answer to its request
Scanned(outcome, hit, scanned) ==
    ScanStep(outcome, hit,
             IF hit THEN crawl_cache.value
             ELSE IF outcome = "ok" /\ scanned.raised = "none" THEN scanned.value
             ELSE <<>>,
             IF hit THEN crawl_cache.elements
             ELSE IF outcome = "http_error" THEN {"Failed to access"}
             ELSE {},
             IF hit THEN "none"
             ELSE IF outcome = "exception" THEN "ConnectionError"
             ELSE IF outcome = "ok" THEN scanned.raised
             ELSE "none")

Scan(outcome) ==
    /\ pc = "scan"
    /\ Scanned(outcome, crawl_cache # NoMemo, scan_and_classify_folders(BASE_URL))
    /\ UNCHANGED <<metadata_cache, metadata_file, loopVars, rangeVars, fetches, listed,
                   last_call, plotVars, relisted, selected_filters, filtered_folders, classifyVars, smoothVars, headerVars, metaVars, dashVars>>

\* the selections the sidebar can end with in the current state
Selections == IF pc = "filters" THEN Cascade(classified_folders, 1, NoFilters) ELSE {}

\* lines 153-200 and 240-245: the user's selections, then the filtered folders
SelectFilters(filters) ==
    /\ pc = "filters"
    /\ error = "none"
    /\ filters \in Selections
    /\ selected_filters' = filters
    /\ filtered_folders' = FilterFolders(classified_folders, filters)
    /\ file_info' = <<>>
    /\ folder_i' = 1
    /\ files' = NotListed
    /\ file_i' = 1
    /\ pc' = "collect"
    /\ UNCHANGED <<classified_folders, error, messages, cacheVars, rangeVars, historyVars,
                   plotVars, logVars,
                   classifyVars, smoothVars, headerVars, metaVars, dashVars>>

\* lines 250-252: the request for a folder's index page
ListFolder(outcome) ==
    /\ pc = "collect"
    /\ folder_i <= Len(filtered_folders)
    /\ files = NotListed
    /\ Allowed(outcome)
    /\ NoteOutcome(outcome)
    /\ requests' = Append(requests, Request(filtered_folders[folder_i].path, outcome, "list"))
    /\ NoteUrl(filtered_folders[folder_i].path, outcome)
    /\ window_listings' = window_listings \cup {filtered_folders[folder_i].path}
    /\ relisted' = relisted \cup ({filtered_folders[folder_i].path} \cap window_listings)
    /\ IF outcome = "exception"
       THEN /\ Crash("ConnectionError")
            /\ UNCHANGED <<folder_i, files, file_i, listed>>
       ELSE LET hrefs == IF outcome = "ok"
                         THEN SelectEnding(FolderAnchors(filtered_folders[folder_i].path), CSV)
                         ELSE <<>>
            IN  /\ IF hrefs = <<>>
                   THEN /\ folder_i' = folder_i + 1
                        /\ files' = NotListed
                   ELSE /\ files' = [listed |-> TRUE, hrefs |-> hrefs]
                        /\ UNCHANGED folder_i
                /\ file_i' = 1
                /\ listed' = listed \cup
                       {urljoin(filtered_folders[folder_i].path, hrefs[i]).value :
                            i \in {k \in 1..Len(hrefs) :
                                       urljoin(filtered_folders[folder_i].path,
                                               hrefs[k]).raised = "none"}}
                /\ UNCHANGED <<pc, error>>
    /\ UNCHANGED <<messages, cacheVars, file_info, rangeVars, fetches, last_call, plotVars,
                   classifyVars, smoothVars, headerVars, metaVars, filterVars, dashVars>>

\* lines 254-267 for one file: fetch_csv_headers_and_first_valid_values
\* (lines 205-238), then the tests that decide whether the file is kept
CollectStep(outcome, parses, folder, file, file_url, hit, entry, raised) ==
    /\ IF hit
       THEN /\ outcome = "ok" /\ parses
            /\ UNCHANGED <<failures, failed_fetch, fetches>>
       ELSE /\ Allowed(outcome)
            /\ outcome # "http_error" => parses
            /\ outcome = "ok" => Count(file_url) < MaxFetches
            /\ NoteOutcome(outcome)
            /\ fetches' = IF outcome = "ok"
                          THEN (file_url :> (Count(file_url) + 1)) @@ fetches
                          ELSE fetches
    /\ last_call' = [url |-> file_url,
                     outcome |-> IF hit THEN "hit" ELSE outcome,
                     raised |-> raised]
    /\ requests' = IF hit THEN requests
                   ELSE Append(requests, Request(file_url, outcome, "extract"))
    /\ IF hit THEN UNCHANGED failed_urls ELSE NoteUrl(file_url, outcome)
    /\ IF raised # "none"
       THEN /\ Crash(raised)
            /\ UNCHANGED <<metadata_cache, loopVars>>
       ELSE /\ metadata_cache' = (file_url :> entry) @@ metadata_cache
            /\ file_info' = IF Includes(entry)
                            THEN Append(file_info, FileInfo(file_url, entry, file, folder))
                            ELSE file_info
            /\ IF file_i < Len(files.hrefs)
               THEN /\ file_i' = file_i + 1
                    /\ UNCHANGED <<folder_i, files>>
               ELSE /\ file_i' = 1
                    /\ folder_i' = folder_i + 1
                    /\ files' = NotListed
            /\ UNCHANGED <<pc, error>>

\* the summary of the file at file_url: the cached one or the one computed
\* from the response
CollectEntry(outcome, parses, folder, file, file_url, hit) ==
    CollectStep(outcome, parses, folder, file, file_url, hit,
                IF hit THEN metadata_cache[file_url]
                ELSE first_valid_values(IF outcome = "ok" THEN Content(file_url)
                                        ELSE ErrorPageFrame),
                IF hit THEN "none"
                ELSE IF outcome = "exception" THEN "ConnectionError"
                ELSE IF outcome = "http_error" /\ ~parses THEN "ParserError"
                ELSE "none")

\* line 254: the ValueError of urljoin ends the pass before any request
CollectUrl(outcome, parses, folder, file, file_url) ==
    IF file_url.raised # "none"
    THEN /\ outcome = "ok" /\ parses
         /\ Crash(file_url.raised)
         /\ UNCHANGED <<failures, failed_fetch, fetches, last_call, requests, failed_urls,
                        metadata_cache, loopVars>>
    ELSE CollectEntry(outcome, parses, folder, file, file_url.value,
                      file_url.value \in DOMAIN metadata_cache)

CollectFile(outcome, parses) ==
    /\ pc = "collect"
    /\ files # NotListed
    /\ CollectUrl(outcome, parses, filtered_folders[folder_i], files.hrefs[file_i],
                  urljoin(filtered_folders[folder_i].path, files.hrefs[file_i]))
    /\ UNCHANGED <<messages, metadata_file, crawl_cache, rangeVars, listed, plotVars,
                   window_listings, relisted,
                   classifyVars, smoothVars, headerVars, metaVars, filterVars, dashVars>>

\* lines 269-270: the cache is written after the loop
Save ==
    /\ pc = "collect"
    /\ folder_i > Len(filtered_folders)
    /\ metadata_file' = metadata_cache
    /\ pc' = "sliders"
    /\ UNCHANGED <<error, messages, metadata_cache, crawl_cache, loopVars, rangeVars,
                   historyVars, plotVars, logVars, classifyVars, smoothVars, headerVars, metaVars, filterVars, dashVars>>

\* lines 274-298: the sliders and the range filter, skipped when file_info
\* is empty
Sliders ==
    /\ pc = "sliders"
    /\ IF file_info = <<>>
       THEN UNCHANGED <<rangeVars, messages>>
       ELSE LET socs == UNION {file_info[i].SOC : i \in 1..Len(file_info)}
                temps == UNION {file_info[i].temp : i \in 1..Len(file_info)}
            IN  \E soc_range \in SliderValues(socs), temp_range \in SliderValues(temps) :
                /\ selected_soc_range' = soc_range
                /\ selected_temp_range' = temp_range
                /\ messages' = messages
                       \cup (IF Min(socs) = Max(socs)
                             THEN {"Only one SOC value available"} ELSE {})
                       \cup (IF Min(temps) = Max(temps)
                             THEN {"Only one Cell Temp value available"} ELSE {})
                /\ filtered_file_info' =
                       [defined |-> TRUE,
                        value |-> FilterFileInfo(file_info, soc_range, temp_range)]
    /\ pc' = "plot"
    /\ UNCHANGED <<error, cacheVars, loopVars, historyVars, plotVars, logVars, classifyVars, smoothVars, headerVars, metaVars,
                   filterVars, dashVars>>

(***************************************************************************)
(* The plot phase (lines 300-491)                                          *)
(***************************************************************************)
\* lines 304-313: checkbox label -> column of the file, or list of two
\* columns
columns_to_plot ==
    ("Max Discharge Power [kW]" :> [list |-> FALSE, cols |-> <<"Max discharge power">>])
        @@ ("Battery Power [kW]" :> [list |-> FALSE, cols |-> <<"Battery power">>])
        @@ ("Battery Current [A]" :> [list |-> FALSE, cols |-> <<"Battery current">>])
        @@ ("Battery Voltage [V]" :> [list |-> FALSE, cols |-> <<"Battery voltage">>])
        @@ ("Front/Rear Motor Power [kW]" :> [list |-> TRUE, cols |-> <<"F power", "R power">>])
        @@ ("Combined Motor Power [kW]" :> [list |-> TRUE, cols |-> <<"F power", "R power">>])
        @@ ("Front/Rear Motor Torque [Nm]" :> [list |-> TRUE, cols |-> <<"F torque", "R torque">>])
        @@ ("Combined Motor Torque [Nm]" :> [list |-> TRUE, cols |-> <<"F torque", "R torque">>])

\* columns_to_plot.keys(): the checkboxes in the order of the sidebar
Labels ==
    <<"Max Discharge Power [kW]", "Battery Power [kW]", "Battery Current [A]",
      "Battery Voltage [V]", "Front/Rear Motor Power [kW]", "Combined Motor Power [kW]",
      "Front/Rear Motor Torque [Nm]", "Combined Motor Torque [Nm]">>

selected_x_axis == "Speed"

\* lines 314-317: the labels of the ticked boxes, in the order of the sidebar
Ticked(boxes) ==
    SelectSeq(Labels, LAMBDA label : label \in boxes)

\* the lists of ticked checkboxes the user of the model makes: no box, any
\* single box, and three pairs
ColumnSelections ==
    {Ticked(boxes) :
        boxes \in {{}} \cup {{Labels[k]} : k \in 1..Len(Labels)}
                    \cup { {"Max Discharge Power [kW]", "Battery Power [kW]"},
                           {"Battery Power [kW]", "Combined Motor Power [kW]"},
                           {"Front/Rear Motor Power [kW]", "Battery Current [A]"} }}

\* the column names of columns_to_plot, character by character
Spelling ==
    ("Max discharge power" :> <<"M", "a", "x", " ", "d", "i", "s", "c", "h", "a", "r", "g", "e",
                                " ", "p", "o", "w", "e", "r">>)
        @@ ("Battery power" :> <<"B", "a", "t", "t", "e", "r", "y", " ", "p", "o", "w", "e", "r">>)
        @@ ("Battery current" :> <<"B", "a", "t", "t", "e", "r", "y", " ",
                                   "c", "u", "r", "r", "e", "n", "t">>)
        @@ ("Battery voltage" :> <<"B", "a", "t", "t", "e", "r", "y", " ",
                                   "v", "o", "l", "t", "a", "g", "e">>)
        @@ ("F power" :> <<"F", " ", "p", "o", "w", "e", "r">>)
        @@ ("R power" :> <<"R", " ", "p", "o", "w", "e", "r">>)
        @@ ("F torque" :> <<"F", " ", "t", "o", "r", "q", "u", "e">>)
        @@ ("R torque" :> <<"R", " ", "t", "o", "r", "q", "u", "e">>)

\* word in text (case-sensitive)
In(word, text) ==
    \E i \in 1..(Len(text) - Len(word) + 1) : SubSeq(text, i, i + Len(word) - 1) = word

\* lines 377 and 381-384: the colour of the folder of file i, folders
\* numbered in the order in which filtered_file_info first names them
predefined_colors ==
    <<"blue", "red", "orange", "green", "purple", "brown", "pink", "grey", "olive", "cyan">>

folder_colors(infos, i) ==
    LET first(p) == CHOOSE k \in 1..i : /\ infos[k].folder.path = p
                                        /\ \A j \in 1..(k - 1) : infos[j].folder.path # p
        firsts == {first(infos[k].folder.path) : k \in 1..i}
        rank == Cardinality({k \in firsts : k < first(infos[i].folder.path)})
    IN  predefined_colors[(rank % Len(predefined_colors)) + 1]

\* the column has the dtype int64 in the file as it was read: filling and
\* dropping rows leave the dtype of a column as it is
Integral(frame, c) == frame.dtypes[c] = "int64"

\* the numbers of a column that has no missing value, in halves
Values(frame, c) ==
    [i \in 1..Len(frame.rows) |-> CHOOSE x \in frame.rows[i][c] : TRUE]

\* the array of a column or of the sum of two columns, from its numbers in
\* halves: whole numbers when every column read is int64, doubles
\* otherwise (halves and their sums are doubles without rounding)
Array(integral, halves) ==
    [dtype |-> IF integral THEN "int64" ELSE "float64",
     values |-> [i \in 1..Len(halves) |->
                    IF integral THEN halves[i] \div 2 ELSE FromHalves(halves[i])]]

\* line 401
legend_label(info) ==
    <<info.folder["model"], info.folder["variant"], info.folder["model_year"],
      info.folder["battery"], info.folder["rear_motor"],
      info.folder["acceleration_mode"], info.SOC, info.temp>>

\* lines 404-451: the traces one ticked label asks for, each with the
\* columns it reads (in the order of the reads), the end of its legend
\* entry and its line style
Series(label) ==
    LET y_col == columns_to_plot[label]
    IN  IF y_col.list
        THEN IF label = "Combined Motor Power [kW]"
             THEN << [reads |-> y_col.cols, suffix |-> "Combined Motor Power",
                      style |-> "solid"] >>
             ELSE IF label = "Combined Motor Torque [Nm]"
             THEN << [reads |-> y_col.cols, suffix |-> "Combined Motor Torque",
                      style |-> "dash"] >>
             ELSE [k \in 1..Len(y_col.cols) |->
                      [reads |-> <<y_col.cols[k]>>, suffix |-> y_col.cols[k],
                       style |-> IF In(<<"T", "o", "r", "q", "u", "e">>, Spelling[y_col.cols[k]])
                                 THEN "dash" ELSE "solid"]]
        ELSE << [reads |-> y_col.cols, suffix |-> label,
                 style |-> IF \/ In(<<"C", "u", "r", "r", "e", "n", "t">>, Spelling[y_col.cols[1]])
                              \/ In(<<"V", "o", "l", "t", "a", "g", "e">>, Spelling[y_col.cols[1]])
                           THEN "dot" ELSE "solid"] >>

RECURSIVE AllSeries(_)
\* the traces of the ticked labels, in the order of the loop of line 404
AllSeries(columns) ==
    IF columns = <<>> THEN <<>>
    ELSE Series(Head(columns)) \o AllSeries(Tail(columns))

\* one trace: the Y values are the smoothed column, or the smoothed sum of
\* the two columns of a combined label
Trace(raw, frame, info, trace, color) ==
    LET c1 == trace.reads[1]
        c2 == trace.reads[Len(trace.reads)]
        y == IF Len(trace.reads) = 1 THEN Values(frame, c1)
             ELSE [i \in 1..Len(frame.rows) |-> Values(frame, c1)[i] + Values(frame, c2)[i]]
    IN  [X |-> Column(frame, selected_x_axis),
         Y |-> uniform_filter1d(Array(Integral(raw, c1) /\ Integral(raw, c2), y), size),
         Label |-> <<legend_label(info), trace.suffix>>,
         Color |-> color]
            @@ ("Line Style" :> trace.style)

RECURSIVE PlotSeries(_, _, _, _, _, _)
\* lines 404-451 for the traces of one file: df[...] raises KeyError when
\* the file lacks a column the trace reads, plot_data.append raises
\* NameError while plot_data is unbound, df[selected_x_axis] raises KeyError
\* without a Speed column
PlotSeries(raw, frame, info, todo, color, data) ==
    IF todo = <<>> THEN [raised |-> "none", data |-> data]
    ELSE IF \E k \in 1..Len(Head(todo).reads) : ~HasColumn(frame.columns, Head(todo).reads[k])
    THEN [raised |-> "KeyError", data |-> data]
    ELSE IF ~data.defined
    THEN [raised |-> "NameError: plot_data", data |-> data]
    ELSE IF ~HasColumn(frame.columns, selected_x_axis)
    THEN [raised |-> "KeyError", data |-> data]
    ELSE PlotSeries(raw, frame, info, Tail(todo), color,
                    [defined |-> TRUE,
                     value |-> Append(data.value, Trace(raw, frame, info, Head(todo), color))])

PlotColumns(raw, frame, info, columns, color, data) ==
    PlotSeries(raw, frame, info, AllSeries(columns), color, data)

\* the plot loop issues no request of its own
PlotRequestsNone(info, outcome) == <<>>

\* lines 386-388: every iteration of the plot loop requests its file,
\* whatever the metadata cache holds
PlotRequests(info, outcome) == <<Request(info.path, outcome, "plot")>>

\* lines 302-320 and the head of the loop at line 381, which reads
\* filtered_file_info
SelectColumns(columns) ==
    /\ pc = "plot"
    /\ columns \in ColumnSelections
    /\ selected_columns' = columns
    /\ plot_i' = 1
    /\ IF filtered_file_info.defined
       THEN pc' = "series" /\ UNCHANGED error
       ELSE Crash("NameError: filtered_file_info")
    /\ UNCHANGED <<messages, cacheVars, loopVars, rangeVars, historyVars, plot_data, logVars,
                   classifyVars, smoothVars, headerVars, metaVars, filterVars, dashVars>>

\* lines 381-451 for one file of filtered_file_info
PlotFile(outcome, parses) ==
    /\ pc = "series"
    /\ plot_i <= Len(filtered_file_info.value)
    /\ LET info == filtered_file_info.value[plot_i]
           issued == PlotRequests(info, outcome)
           raw == IF outcome = "ok" THEN Content(info.path) ELSE ErrorPageFrame
           readable == outcome = "ok" \/ (outcome = "http_error" /\ parses)
           valid == readable /\ BothColumns(raw)
           frame == IF valid THEN SeriesFrame(raw) ELSE raw
           plotted == IF valid
                      THEN PlotColumns(raw, frame, info, selected_columns,
                                      folder_colors(filtered_file_info.value, plot_i),
                                      plot_data)
                      ELSE [raised |-> IF outcome = "exception" THEN "ConnectionError"
                                       ELSE IF ~parses THEN "ParserError"
                                       ELSE "KeyError",
                            data |-> plot_data]
       IN  /\ IF issued # <<>>
              THEN /\ Allowed(outcome)
                   /\ outcome # "http_error" => parses
                   /\ NoteOutcome(outcome)
                   /\ NoteUrl(info.path, outcome)
              ELSE /\ outcome = "ok" /\ parses
                   /\ UNCHANGED <<failures, failed_fetch, failed_urls>>
           /\ requests' = requests \o issued
           /\ df' = IF readable THEN raw ELSE df
           /\ loaded' = IF valid THEN frame ELSE loaded
           /\ plot_data' = plotted.data
           /\ IF plotted.raised # "none"
              THEN Crash(plotted.raised) /\ UNCHANGED plot_i
              ELSE plot_i' = plot_i + 1 /\ UNCHANGED <<pc, error>>
    /\ UNCHANGED <<messages, cacheVars, loopVars, rangeVars, fetches, listed, last_call,
                   selected_columns, window_listings, relisted, metadata,
                   classifyVars, smoothVars, headerVars, filterVars, dashVars>>

\* lines 453-491: the chart, or the hint when there is nothing to draw;
\* line 453 reads plot_data
Render ==
    /\ pc = "series"
    /\ plot_i > Len(filtered_file_info.value)
    /\ IF ~plot_data.defined
       THEN Crash("NameError: plot_data") /\ UNCHANGED messages
       ELSE /\ pc' = "done"
            /\ messages' = messages \cup
                   (IF plot_data.value # <<>> THEN {"chart"}
                    ELSE {"Please select an X-axis and at least one column to plot."})
            /\ UNCHANGED error
    /\ UNCHANGED <<cacheVars, loopVars, rangeVars, historyVars, plotVars, logVars,
                   classifyVars, smoothVars, headerVars, metaVars, filterVars, dashVars>>

\* the script is over (it ran to its end, stopped or raised): the next
\* interaction starts a new pass, and only metadata_cache.json and the
\* st.cache_data memo outlive the pass
EndPass ==
    /\ pc \in {"stopped", "crashed", "done"}
    /\ pc' = "idle"
    /\ error' = "none"
    /\ messages' = {}
    /\ metadata_cache' = EmptyCache
    /\ classified_folders' = <<>>
    /\ selected_filters' = NoFilters
    /\ filtered_folders' = <<>>
    /\ folder_i' = 1
    /\ files' = NotListed
    /\ file_i' = 1
    /\ file_info' = <<>>
    /\ selected_soc_range' = <<>>
    /\ selected_temp_range' = <<>>
    /\ filtered_file_info' = Undefined
    /\ failed_fetch' = FALSE
    /\ listed' = {}
    /\ last_call' = NoCall
    /\ selected_columns' = <<>>
    /\ plot_i' = 1
    /\ plot_data' = Undefined
    /\ requests' = <<>>
    /\ df' = [columns |-> <<>>, index |-> <<>>, rows |-> <<>>]
    /\ loaded' = Pending
    /\ UNCHANGED <<metadata_file, crawl_cache, fetches, failures, window_listings, relisted,
                   failed_urls,
                   metadata,
                   classifyVars, smoothVars, headerVars, dashVars>>

\* line 39, ttl=600: the memo of the crawl expires
ExpireCrawl ==
    /\ pc = "idle"
    /\ crawl_cache # NoMemo
    /\ crawl_cache' = NoMemo
    /\ window_listings' = {}
    /\ relisted' = {}
    /\ failed_urls' = [u \in DOMAIN failed_urls |-> TRUE]
    /\ UNCHANGED <<pc, error, messages, metadata_cache, metadata_file, loopVars, rangeVars,
                   historyVars, plotVars, requests, classifyVars, smoothVars, headerVars, metaVars, filterVars, dashVars>>

Next ==
    \/ StartPass
    \/ \E outcome \in Outcomes : Scan(outcome)
    \/ \E filters \in Selections : SelectFilters(filters)
    \/ \E outcome \in Outcomes : ListFolder(outcome)
    \/ \E outcome \in Outcomes, parses \in BOOLEAN : CollectFile(outcome, parses)
    \/ Save
    \/ Sliders
    \/ \E columns \in ColumnSelections : SelectColumns(columns)
    \/ \E outcome \in Outcomes, parses \in BOOLEAN : PlotFile(outcome, parses)
    \/ Render
    \/ EndPass
    \/ ExpireCrawl

Spec == InitPage /\ [][Next]_vars

(***************************************************************************)
(* Claims about the page                                                   *)
(***************************************************************************)
FileUrls == {UrlA, UrlB, UrlC, UrlD}

\* C3: calling the metadata extractor twice on the same URL, without the
\* cache being cleared, performs one network fetch of that URL: no URL is
\* ever fetched a second time by the extractor.
C3_OneFetchPerUrl ==
    \A u \in DOMAIN fetches : fetches[u] <= 1

\* C4: at every point of the collection loop the persisted store equals the
\* in-memory cache (the store is rewritten right after each computation).
C4_StoreFollowsCache ==
    pc \in {"collect", "crashed"} => metadata_file = metadata_cache

\* C9: a failed request of a pass never ends the pass with an unhandled
\* error, and a warning is surfaced for it.
C9_FailedFetchRecovered ==
    failed_fetch =>
        /\ pc # "crashed"
        /\ "Failed to access" \in messages

NonNull(cache, u) ==
    /\ u \in DOMAIN cache
    /\ cache[u]["SOC"] # None
    /\ cache[u]["Cell temp mid"] # None

\* C6: after the sliders, a file met by the collection loop is in
\* filtered_file_info exactly when its cached metadata exists with non-null
\* SOC and Cell temp mid, SOC is within the closed selected SOC interval and
\* Cell temp mid within the closed selected temperature interval; when there
\* is no selection at all, no file has non-null metadata.
C6_RangeFilterExact ==
    pc = "plot" =>
        IF filtered_file_info.defined
        THEN LET value == filtered_file_info.value
             IN  /\ {value[i].path : i \in 1..Len(value)} =
                        {u \in listed :
                            /\ NonNull(metadata_cache, u)
                            /\ \E x \in metadata_cache[u]["SOC"] :
                                   /\ selected_soc_range[1] <= x
                                   /\ x <= selected_soc_range[2]
                            /\ \E x \in metadata_cache[u]["Cell temp mid"] :
                                   /\ selected_temp_range[1] <= x
                                   /\ x <= selected_temp_range[2]}
                 /\ \A i, j \in 1..Len(value) : value[i].path = value[j].path => i = j
        ELSE {u \in listed : NonNull(metadata_cache, u)} = {}

\* a file whose SOC equals the selected minimum and whose temperature equals
\* the selected maximum passes, while another file is filtered out
C6_Witness ==
    /\ pc = "plot"
    /\ filtered_file_info.defined
    /\ Len(filtered_file_info.value) < Len(file_info)
    /\ \E i \in 1..Len(filtered_file_info.value) :
           /\ filtered_file_info.value[i].SOC = {selected_soc_range[1]}
           /\ filtered_file_info.value[i].temp = {selected_temp_range[2]}

\* C7: a file that lacks a required column is recorded with null summary
\* values (in the cache and in the persisted store), is never in file_info,
\* and a call of the extractor on it whose request was answered, or that
\* hit the cache, raises nothing.
C7_MissingColumnSkipped ==
    \A u \in FileUrls :
        ~BothColumns(Content(u)) =>
            /\ u \in DOMAIN metadata_cache =>
                   metadata_cache[u]["SOC"] = None /\ metadata_cache[u]["Cell temp mid"] = None
            /\ u \in DOMAIN metadata_file =>
                   metadata_file[u]["SOC"] = None /\ metadata_file[u]["Cell temp mid"] = None
            /\ \A i \in 1..Len(file_info) : file_info[i].path # u
            /\ (last_call.url = u /\ last_call.outcome \in {"ok", "hit"}) =>
                   /\ last_call.raised = "none"
                   /\ u \in DOMAIN metadata_cache

\* a later pass meets the file again and finds it in the cache
C7_Witness ==
    /\ last_call = [url |-> UrlB, outcome |-> "hit", raised |-> "none"]
    /\ pc = "collect"
    /\ metadata_cache[UrlB] = Entry(<<"Cell temp mid">>, None, None)
(***************************************************************************)
(* Claims about the plot phase and the crawl                               *)
(***************************************************************************)
\* the requests of the pass issued by one part of the script
RequestsBy(by) == SelectSeq(requests, LAMBDA r : r.by = by)

\* the plot loop has requested and received the file in this pass
Plotted(url) ==
    \E i \in 1..Len(requests) : requests[i] = Request(url, "ok", "plot")

\* C11: for the selected file a.csv, whose rows are (SOC, Cell temp mid,
\* Speed, Battery power) = (20,25,10,5) and (21,26,20,7), a Speed versus
\* Battery power chart request produces exactly the two points (10,5) and
\* (20,7), in row order; every row that passes the validity bounds yields
\* one plotted point.
C11_ExampleChartPoints ==
    (Plotted(UrlA) /\ selected_columns = <<"Battery Power [kW]">>
        /\ df = Content(UrlA)) =>
        /\ Len(loaded.rows) = Len(LoaderFrame(df).rows)
        /\ plot_data.defined
        /\ \E k \in 1..Len(plot_data.value) :
               /\ plot_data.value[k].X = <<Num(20), Num(40)>>
               /\ plot_data.value[k].Y.dtype = "int64"
               /\ plot_data.value[k].Y.values = <<5, 7>>

\* C12: a pass whose collection loop ends with an empty file_info (no
\* request of the pass having failed) surfaces a message and does not end
\* in an unhandled error.
C12_EmptyFileInfoMessage ==
    (file_info = <<>> /\ ~failed_fetch /\ pc \in {"series", "crashed", "done"}) =>
        /\ pc # "crashed"
        /\ messages # {}

RECURSIVE Leaves(_, _)
\* the data files of the server in the directory path and in its
\* subdirectories (the directory links that lead below path) down to depth
\* further levels
Leaves(path, depth) ==
    LET anchors == FolderAnchors(path)
        hrefs(c) == {h \in {anchors[i] : i \in 1..Len(anchors)} : endswith(h, c)}
        below == {u \in {urljoin(path, h).value : h \in hrefs(<<"/">>)} :
                     startswith(u, path) /\ u # path}
    IN  {urljoin(path, h).value : h \in hrefs(CSV)}
            \cup (IF depth = 0 THEN {}
                  ELSE UNION {Leaves(u, depth - 1) : u \in below})

\* C13: when the collection loop of a pass has ended and no request of the
\* pass failed, every data file in a selected folder or in a subdirectory
\* of it, down to the maximum depth below the root, has been discovered.
C13_AllLeavesDiscovered ==
    (pc = "sliders" /\ ~failed_fetch) =>
        \A i \in 1..Len(filtered_folders) :
            Leaves(filtered_folders[i].path, MaxDepth - 1) \subseteq listed

\* C14: between the memoization of a crawl and its expiry no directory
\* listing, of the root or of a folder, is requested a second time.
C14_ListingsReused == relisted = {}

Stale(url) == url \in DOMAIN failed_urls /\ failed_urls[url]

\* C15: after a request failed, the same pass issues no second request of
\* that URL; and the failure is not remembered beyond the expiry of the
\* crawl cache: once the cache has expired, no call of the metadata
\* extractor is answered from what the failed request recorded and no
\* memo of the crawl stems from it.
C15_NoRetryNoMemoryOfFailure ==
    /\ \A i \in 1..Len(requests) : \A j \in (i + 1)..Len(requests) :
           Fails(requests[i].outcome) => requests[j].url # requests[i].url
    /\ last_call.outcome = "hit" => ~Stale(last_call.url)
    /\ crawl_cache # NoMemo => ~Stale(BASE_URL)

\* C16: the plot loop issues one request for the file of each of its
\* iterations, in the order of filtered_file_info, whether or not the
\* metadata cache holds an entry for the file (it always does), and the
\* series it works on is the content that request returned.
C16_PlotLoopFetchesEachFile ==
    (pc \in {"plot", "series", "crashed", "done"} /\ filtered_file_info.defined) =>
        LET plots == RequestsBy("plot")
            \* an iteration that raised has sent its request and not advanced
            raised == pc = "crashed" /\ plot_i <= Len(filtered_file_info.value)
        IN  /\ Len(plots) = IF raised THEN plot_i ELSE plot_i - 1
            /\ \A k \in 1..Len(plots) :
                   /\ plots[k].url = filtered_file_info.value[k].path
                   /\ plots[k].url \in DOMAIN metadata_cache
            /\ (plots # <<>> /\ plots[Len(plots)].outcome = "ok") =>
                   df = Content(plots[Len(plots)].url)

\* a.csv is summarised in the cache from an earlier pass (this pass sent no
\* request for its metadata) and the plot loop has fetched it all the same
C16_Witness ==
    /\ pc = "series"
    /\ plot_i > 1
    /\ Plotted(UrlA)
    /\ UrlA \in DOMAIN metadata_file
    /\ \A i \in 1..Len(requests) : requests[i].by = "extract" => requests[i].url # UrlA
    /\ df = Content(UrlA)

BadUrl == urljoin(BASE_URL, <<"BadName", "/">>).value

Mentions(s, token) == \E i \in 1..Len(s) : s[i] = token

\* C17: the folder BadName, whose name does not match the grammar, is in
\* no list of classified folders (the one of the pass, the memoized one,
\* the filtered one), no request is sent for it or for anything below it,
\* and no attribute picker offers a value taken from its name.
C17_BadNameExcluded ==
    /\ \A i \in 1..Len(classified_folders) : classified_folders[i].path # BadUrl
    /\ \A i \in 1..Len(filtered_folders) : filtered_folders[i].path # BadUrl
    /\ crawl_cache # NoMemo =>
           \A i \in 1..Len(crawl_cache.value) : crawl_cache.value[i].path # BadUrl
    /\ \A i \in 1..Len(requests) : ~startswith(requests[i].url, BadUrl)
    /\ \A u \in listed : ~startswith(u, BadUrl)
    /\ \A key \in AttributeKeys :
           \A v \in get_unique_values(classified_folders, key, NoFilters) :
               ~Mentions(v, "BadName")

\* the root listing, which holds BadName, was answered in this pass, both
\* well-named folders are classified and the collection loop has run
C17_Witness ==
    /\ pc = "sliders"
    /\ Len(classified_folders) = 2
    /\ Len(filtered_folders) = 2
    /\ requests # <<>>
    /\ requests[1] = Request(BASE_URL, "ok", "scan")
    /\ listed # {}

\* C23: a pass that has at least one file in the range-filtered selection,
\* no Y-axis checkbox ticked and every request answered ends by showing the
\* hint to select a column, draws no chart and raises no unhandled error.
C23_NoColumnShowsHint ==
    (/\ pc \in {"crashed", "done"}
     /\ filtered_file_info.defined
     /\ Len(filtered_file_info.value) >= 1
     /\ selected_columns = <<>>
     /\ ~failed_fetch) =>
        /\ pc = "done"
        /\ error = "none"
        /\ "Please select an X-axis and at least one column to plot." \in messages
        /\ "chart" \notin messages

\* C26: a column (a ticked Y-axis column or Speed) that is missing from a
\* selected file does not abort the pass: no pass whose requests were all
\* answered ends in a KeyError.
C26_MissingSeriesSkipped ==
    (pc = "crashed" /\ ~failed_fetch /\ selected_columns # <<>>) =>
        error # "KeyError"

(***************************************************************************)
(* The battery dashboard (src/Dashboard.py).  The worksheet is the list of *)
(* lists gspread's get_all_values returns: the header row, then one row of *)
(* cell texts per car.  A text is a sequence of characters; a word no      *)
(* operation of the script looks into ("Model 3", "Rated Range") is one    *)
(* element of it.                                                          *)
(*                                                                         *)
(* A value of the DataFrame is Str(text), a float or nan.  A float is the  *)
(* exact fraction num/den in lowest terms (den = 0 for the infinities), so *)
(* that 12.3 and 12.5 are different numbers; what the model leaves out of  *)
(* a double is its rounding, its range and the sign of zero.               *)
(***************************************************************************)
nan == [kind |-> "nan"]

Str(text) == [kind |-> "str", s |-> text]

Abs(x) == IF x < 0 THEN -x ELSE x

Sign(x) == IF x < 0 THEN -1 ELSE 1

RECURSIVE gcd(_, _)
gcd(a, b) == IF b = 0 THEN a ELSE gcd(b, a % b)

Float(num, den) ==
    IF den = 0 THEN [kind |-> "float", num |-> Sign(num), den |-> 0]
    ELSE LET g == gcd(Abs(num), Abs(den))
         IN  [kind |-> "float", num |-> Sign(num) * Sign(den) * (Abs(num) \div g),
              den |-> Abs(den) \div g]

isna(v) == v = nan

IsInf(v) == v.kind = "float" /\ v.den = 0

\* a <= b for two floats; a comparison with nan (or a text) is False
FloatLe(a, b) ==
    /\ a.kind = "float"
    /\ b.kind = "float"
    /\ IF a.den = 0 /\ b.den = 0 THEN a.num <= b.num
       ELSE a.num * b.den <= b.num * a.den

\* a / b for two floats, as numpy divides: x/0 is an infinity, 0/0 and
\* inf/inf are nan
FloatDiv(a, b) ==
    IF a.kind # "float" \/ b.kind # "float" THEN nan
    ELSE IF (a.num = 0 \/ a.den = 0) /\ (b.num = 0 \/ b.den = 0)
              /\ (a.num = 0) = (b.num = 0) THEN nan
    ELSE IF a.den * b.num = 0
         THEN IF a.num * b.den = 0 THEN Float(0, 1)
              ELSE Float(Sign(a.num) * Sign(b.num), 0)
    ELSE Float(a.num * b.den, a.den * b.num)

\* int(x): the float cut towards zero
int(v) ==
    IF v.kind # "float" THEN [raised |-> "ValueError"]
    ELSE IF v.den = 0 THEN [raised |-> "OverflowError"]
    ELSE [raised |-> "none", value |-> Sign(v.num) * (Abs(v.num) \div v.den)]

AsciiDigits == {DecimalDigits[d] : d \in 1..10}

\* the value of a decimal digit of any script
DigitValue(c) ==
    IF c \in AsciiDigits THEN CHOOSE d \in 0..9 : DecimalDigits[d + 1] = c
    ELSE CHOOSE d \in 0..9 : \E z \in DigitZeros : chr(z + d) = c

RECURSIVE DigitsValue(_)
\* the number a run of digits denotes, its underscores left out
DigitsValue(s) ==
    IF s = <<>> THEN 0
    ELSE LET rest == DigitsValue(SubSeq(s, 1, Len(s) - 1))
         IN  IF s[Len(s)] = "_" THEN rest ELSE 10 * rest + DigitValue(s[Len(s)])

RECURSIVE Pow10(_)
Pow10(n) == IF n = 0 THEN 1 ELSE 10 * Pow10(n - 1)

\* a run of digits, with single underscores between two digits where the
\* reader allows them
DigitRun(s, digits, underscores) ==
    \A i \in 1..Len(s) :
        \/ s[i] \in digits
        \/ /\ underscores
           /\ s[i] = "_"
           /\ 1 < i
           /\ i < Len(s)
           /\ s[i - 1] \in digits
           /\ s[i + 1] \in digits

\* the sign at the head of a text, and the text without it
SignOf(s) == IF s # <<>> /\ s[1] = "-" THEN -1 ELSE 1

Unsigned(s) == IF s # <<>> /\ s[1] \in {"+", "-"} THEN Tail(s) ELSE s

\* number * 10^shift
Scaled(number, shift) ==
    IF shift >= 0 THEN Float(number * Pow10(shift), 1) ELSE Float(number, Pow10(-shift))

\* the digits before and after the point and the exponent (signed) of a
\* number in decimal notation; has_exponent: an "e" stands before exponent
Decimal(sign, whole, decimals, exponent, has_exponent, digits, underscores) ==
    IF /\ DigitRun(whole, digits, underscores)
       /\ DigitRun(decimals, digits, underscores)
       /\ whole \o decimals # <<>>
       /\ has_exponent => /\ Unsigned(exponent) # <<>>
                          /\ DigitRun(Unsigned(exponent), digits, underscores)
    THEN [ok |-> TRUE,
          value |-> Scaled(sign * DigitsValue(whole \o decimals),
                           SignOf(exponent) * DigitsValue(Unsigned(exponent))
                               - Len(SelectSeq(decimals, LAMBDA c : c # "_")))]
    ELSE [ok |-> FALSE]

\* the mantissa cut at its point (dot = 0: it has none)
SplitPoint(sign, mantissa, dot, exponent, has_exponent, digits, underscores) ==
    Decimal(sign,
            IF dot = 0 THEN mantissa ELSE SubSeq(mantissa, 1, dot - 1),
            IF dot = 0 THEN <<>> ELSE SubSeq(mantissa, dot + 1, Len(mantissa)),
            exponent, has_exponent, digits, underscores)

\* the position of the first "e" or "E" of body, Len(body) + 1 without one
FirstE(body) ==
    LET es == {i \in 1..Len(body) : body[i] \in {"e", "E"}}
    IN  IF es = {} THEN Len(body) + 1 ELSE CHOOSE i \in es : \A j \in es : i <= j

\* body cut at its first "e" or "E", at position e
SplitExponent(sign, body, e, digits, underscores) ==
    SplitPoint(sign, SubSeq(body, 1, e - 1), Find(SubSeq(body, 1, e - 1), ".", 1),
               SubSeq(body, e + 1, Len(body)), e <= Len(body), digits, underscores)

\* the number after the sign: inf, infinity or nan in any case, or digits
\* with an optional point and an optional exponent
ParseBody(sign, body, digits, underscores) ==
    LET word == [i \in 1..Len(body) |-> lower(body[i])]
    IN  IF Len(body) \in {3, 8}
               /\ word \in {<<"i", "n", "f">>, <<"i", "n", "f", "i", "n", "i", "t", "y">>}
        THEN [ok |-> TRUE, value |-> Float(sign, 0)]
        ELSE IF Len(body) = 3 /\ word = <<"n", "a", "n">> THEN [ok |-> TRUE, value |-> nan]
        ELSE SplitExponent(sign, body, FirstE(body), digits, underscores)

ParseSigned(s, digits, underscores) == ParseBody(SignOf(s), Unsigned(s), digits, underscores)

\* the number a text denotes: blanks around it, a sign, then the number;
\* ok is FALSE for any other text
ParseNumber(text, digits, underscores, spaces) ==
    ParseSigned(strip(text, spaces), digits, underscores)

\* the value of a parsed text, ValueError for a text that is not a number
Parsed(parsed) ==
    IF parsed.ok THEN [raised |-> "none", value |-> parsed.value]
    ELSE [raised |-> "ValueError"]

\* float(text)
float(text) == Parsed(ParseNumber(text, Digits, TRUE, FloatWhitespace))

\* Series.astype(float) on one value
astype_float(v) ==
    IF v.kind = "str" THEN float(v.s) ELSE [raised |-> "none", value |-> v]

\* errors='coerce': nan for a text that is not a number
Coerced(parsed) == IF parsed.ok THEN parsed.value ELSE nan

\* pd.to_numeric(errors='coerce') on one value
to_numeric(v) ==
    IF v.kind # "str" THEN v
    ELSE Coerced(ParseNumber(v.s, AsciiDigits, FALSE, AsciiWhitespace))

\* Series.str.replace(old, new) on one value
str_replace(v, old, new) ==
    IF v.kind = "str" THEN Str(replace(v.s, old, new)) ELSE v

\* Series.replace(old, nan) on one value
replace_value(v, old) == IF v = Str(old) THEN nan ELSE v

\* the run of digits of t that starts at first
DigitsFrom(t, first) ==
    LET stops == {j \in first..Len(t) : \A k \in first..j : t[k] \in Digits}
    IN  Str(SubSeq(t, first, CHOOSE j \in stops : \A k \in stops : k <= j))

\* the first run of digits of t, starts being the positions of its digits
FirstDigits(t, starts) ==
    IF starts = {} THEN nan
    ELSE DigitsFrom(t, CHOOSE i \in starts : \A j \in starts : i <= j)

\* Series.str.extract('(\d+)') on one value: the first run of digits
str_extract_digits(v) ==
    IF v.kind # "str" THEN v
    ELSE FirstDigits(v.s, {i \in 1..Len(v.s) : v.s[i] \in Digits})

(***************************************************************************)
(* A DataFrame is its column names and its rows, a row being a function    *)
(* from the column names to values.                                        *)
(***************************************************************************)
RECURSIVE keep_indices(_, _)
\* the first loop over the header, from cell i on: keep_indices
keep_indices(hdr, i) ==
    IF i > Len(hdr) THEN <<>>
    ELSE LET col == strip(hdr[i], Whitespace)
             kept == IF col # <<>> /\ ~startswith(col, <<"_">>) /\ col \notin ExcludedHeaders
                     THEN <<i>> ELSE <<>>
         IN  IF col = StopHeader THEN kept ELSE kept \o keep_indices(hdr, i + 1)

\* the function f with its values computed, once
Computed(f) == f @@ <<>>

\* pd.DataFrame(filtered_data[1:], columns=unique_header)
DataFrame(data, keep, names) ==
    [columns |-> names,
     rows |-> Computed([r \in 1..(Len(data) - 1) |->
                  Computed([c \in {names[k] : k \in 1..Len(names)} |->
                      Str(data[r + 1][keep[CHOOSE k \in 1..Len(names) : names[k] = c]])])])]

\* F on every column of the set cols
ApplyAll(frame, cols, F(_)) ==
    [columns |-> frame.columns,
     rows |-> Computed([i \in 1..Len(frame.rows) |->
                  Computed([c \in DOMAIN frame.rows[i] |->
                      IF c \in cols THEN F(frame.rows[i][c]) ELSE frame.rows[i][c]])])]

\* df[col] = F(df[col]) when df has the column, value by value
Apply(frame, col, F(_)) ==
    [columns |-> frame.columns,
     rows |-> Computed([i \in 1..Len(frame.rows) |->
                  IF col \in DOMAIN frame.rows[i]
                  THEN [frame.rows[i] EXCEPT ![col] = F(frame.rows[i][col])]
                  ELSE frame.rows[i]])]

\* df[col].astype(float): what it does on each value of the column
AsFloat(frame, col) == Apply(frame, col, astype_float)

\* astype(float) raises on a value of the column
Raises(converted, col) ==
    \E i \in 1..Len(converted.rows) : converted.rows[i][col].raised # "none"

\* the column as floats, when no value raises
Converted(converted, col) == Apply(converted, col, LAMBDA result : result.value)

\* lines 127-128 on one value
Percent(v) == replace_value(str_replace(v, <<"%">>, <<>>), <<>>)

\* line 128, ratio being what astype(float) does on the DC Ratio column
CleanRatio(ratio) ==
    IF Raises(ratio, <<"DC Ratio">>) THEN [raised |-> "ValueError"]
    ELSE [raised |-> "none", value |-> Converted(ratio, <<"DC Ratio">>)]

\* lines 127-128, soc being what astype(float) does on the Daily SOC Limit
\* column
CleanSoc(names, soc) ==
    IF Raises(soc, <<"Daily SOC Limit">>) THEN [raised |-> "ValueError"]
    ELSE IF ~Contains(names, <<"DC Ratio">>) THEN [raised |-> "KeyError"]
    ELSE CleanRatio(AsFloat(Apply(Converted(soc, <<"Daily SOC Limit">>), <<"DC Ratio">>,
                                  Percent), <<"DC Ratio">>))

\* line 114 leaves a column of nan only: every cell was '-0.0%'.
\* Series.replace then turns the column of objects into one of floats
\* (the pandas the script was written for, before 3.0), which has no .str
Downcast(l114) ==
    /\ l114.rows # <<>>
    /\ \A i \in 1..Len(l114.rows) : l114.rows[i][<<"Degradation">>] = nan

\* lines 117-127 on the frame of line 114
CleanNumbers(names, l114) ==
    LET \* lines 117-118
        l118 == Apply(l114, <<"Rated Range">>, LAMBDA v :
                    to_numeric(str_replace(v, <<" ", "k", "m">>, <<>>)))
        \* lines 120-121
        l121 == Apply(l118, <<"Capacity Net Now">>, LAMBDA v :
                    to_numeric(str_replace(str_replace(v, <<" ", "k", "W", "h">>, <<>>),
                                           <<",">>, <<".">>)))
        \* line 124
        l124 == Apply(l121, <<"Degradation">>, LAMBDA v :
                    to_numeric(str_replace(v, <<"%">>, <<>>)))
    IN  CleanSoc(names, AsFloat(Apply(l124, <<"Daily SOC Limit">>, Percent),
                                <<"Daily SOC Limit">>))

\* lines 117-127: the columns they index, and the .str of line 124
CleanChecked(names, l114) ==
    IF ~Contains(names, <<"Rated Range">>) \/ ~Contains(names, <<"Capacity Net Now">>)
    THEN [raised |-> "KeyError"]
    ELSE IF Downcast(l114) THEN [raised |-> "AttributeError"]
    ELSE IF ~Contains(names, <<"Daily SOC Limit">>) THEN [raised |-> "KeyError"]
    ELSE CleanNumbers(names, l114)

\* lines 99-127, age being what astype(float) does on the Age column
CleanColumns(names, age) ==
    LET l99 == Converted(age, <<"Age">>)
        \* line 102
        l102 == Converted(AsFloat(Apply(l99, <<"Odometer">>, LAMBDA v :
                                            str_extract_digits(str_replace(v, <<",">>, <<>>))),
                                  <<"Odometer">>), <<"Odometer">>)
        \* line 105: the columns that still hold texts
        l105 == ApplyAll(l102, {names[k] : k \in 1..Len(names)} \ {<<"Age">>, <<"Odometer">>},
                         LAMBDA v : str_replace(v, <<",">>, <<".">>))
        \* lines 108-114
        l114 == Apply(l105, <<"Degradation">>, LAMBDA v :
                    replace_value(Str(<<"-">> \o v.s), <<"-", "0", ".", "0", "%">>))
    IN  IF Raises(age, <<"Age">>) THEN [raised |-> "ValueError"]
        ELSE IF ~Contains(names, <<"Odometer">>) \/ ~Contains(names, <<"Degradation">>)
        THEN [raised |-> "KeyError"]
        ELSE CleanChecked(names, l114)

\* lines 99-128 on the frame of line 96
CleanFrame(names, l96) ==
    IF ~Contains(names, <<"Age">>) THEN [raised |-> "KeyError"]
    ELSE CleanColumns(names,
             AsFloat(Apply(l96, <<"Age">>, LAMBDA v :
                         replace_value(str_replace(str_replace(v, <<" ", "M", "o", "n", "t", "h", "s">>, <<>>),
                                                   <<",">>, <<".">>), <<>>)), <<"Age">>))

\* lines 96-128, names being the unique header
NamedFrame(data, names) ==
    CleanFrame(names, DataFrame(data, keep_indices(Head(data), 1), names))

\* fetch_data from line 64 on, for the worksheet get_all_values returned;
\* a column the function indexes and the worksheet has not is a KeyError,
\* a cell float() rejects a ValueError
fetch_data(data) == NamedFrame(data, UniqueHeader(FilterHeader(Head(data), 1), <<>>))

\* the rows of the frame whose value in the column is in no row before
FirstAppearances(frame, col) ==
    {i \in 1..Len(frame.rows) :
        \A j \in 1..(i - 1) : frame.rows[j][col].s # frame.rows[i][col].s}

\* Series.unique() of a column of texts: its values in the order of
\* appearance
unique(frame, col) ==
    [k \in 1..Cardinality(FirstAppearances(frame, col)) |->
        frame.rows[CHOOSE i \in FirstAppearances(frame, col) :
                       Cardinality({j \in FirstAppearances(frame, col) : j < i}) = k - 1][col].s]

\* df[condition]
Where(frame, Test(_)) == [columns |-> frame.columns, rows |-> SelectSeq(frame.rows, Test)]

\* lines 292-307: the rows that satisfy every picker with a selection
AttributeFiltered(frame, tesla, version, battery) ==
    Where(frame, LAMBDA r :
        /\ tesla # {} => r[<<"Tesla">>].s \in tesla
        /\ version # {} => r[<<"Version">>].s \in version
        /\ battery # {} => r[<<"Battery">>].s \in battery)

\* Series.dropna() of a column of floats, as a set
ColumnValues(frame, col) ==
    {frame.rows[i][col] : i \in 1..Len(frame.rows)} \ {nan}

\* Series.min() and Series.max(): nan for a column without a number
min(S) == IF S = {} THEN nan ELSE CHOOSE x \in S : \A y \in S : FloatLe(x, y)
max(S) == IF S = {} THEN nan ELSE CHOOSE x \in S : \A y \in S : FloatLe(y, x)

\* lines 139-142 (and 313-319): int() of the smallest and the largest age
\* and odometer, in the order of the calls
Bounds(frame) ==
    << int(min(ColumnValues(frame, <<"Age">>))), int(max(ColumnValues(frame, <<"Age">>))),
       int(min(ColumnValues(frame, <<"Odometer">>))),
       int(max(ColumnValues(frame, <<"Odometer">>))) >>

\* the dict of lines 148-158 / 405-415; int() raises ValueError for nan and
\* OverflowError for an infinity
DefaultsOf(bounds) ==
    LET failed == {i \in 1..4 : bounds[i].raised # "none"}
    IN  IF failed # {} THEN [raised |-> bounds[Min(failed)].raised]
        ELSE [raised |-> "none",
              value |-> [tesla |-> {}, version |-> {}, battery |-> {},
                         min_age |-> bounds[1].value,
                         max_age |-> bounds[2].value,
                         min_odo |-> bounds[3].value,
                         max_odo |-> bounds[4].value,
                         show_daily_soc_limit |-> FALSE,
                         show_dc_ratio |-> FALSE]]

\* lines 139-158
DefaultFilters(frame) == DefaultsOf(Bounds(frame))

\* the four number inputs in the order of the calls
InputOrder == <<"min_age", "max_age", "min_odo", "max_odo">>

InputNames == {InputOrder[i] : i \in 1..Len(InputOrder)}

\* the value argument of number input i.  int() raises as above, and
\* st.number_input raises StreamlitAPIException for a value below its
\* min_value (1 month, 1000 km): lines 313 and 318 lift a small value to
\* min_value, lines 314 and 319 pass it as it is
ParamOf(bounds, i) ==
    LET min_value == <<1, 1, 1000, 1000>>
    IN  IF bounds[i].raised # "none" THEN [raised |-> bounds[i].raised]
        ELSE IF i \in {2, 4} /\ bounds[i].value < min_value[i]
        THEN [raised |-> "StreamlitAPIException"]
        ELSE [raised |-> "none",
              value |-> IF i \in {1, 3} THEN Max({min_value[i], bounds[i].value})
                        ELSE bounds[i].value]

\* the value arguments of the four number inputs, or what the first call
\* that raises raises
ParamsOf(bounds) ==
    LET failed == {i \in 1..4 : ParamOf(bounds, i).raised # "none"}
    IN  IF failed # {}
        THEN [raised |-> ParamOf(bounds, Min(failed)).raised]
        ELSE [raised |-> "none",
              value |-> [min_age |-> ParamOf(bounds, 1).value,
                         max_age |-> ParamOf(bounds, 2).value,
                         min_odo |-> ParamOf(bounds, 3).value,
                         max_odo |-> ParamOf(bounds, 4).value]]

\* lines 313-319
NumberParams(frame) == ParamsOf(Bounds(frame))

\* lines 331-332 (and again 394-395): the rows within the four bounds
RangeFiltered(frame, v) ==
    Where(frame, LAMBDA r :
        /\ FloatLe(Float(v.min_age, 1), r[<<"Age">>])
        /\ FloatLe(r[<<"Age">>], Float(v.max_age, 1))
        /\ FloatLe(Float(v.min_odo, 1), r[<<"Odometer">>])
        /\ FloatLe(r[<<"Odometer">>], Float(v.max_odo, 1)))

FilterOptions == {"Off", "Daily SOC Limit", "AC/DC Ratio"}

\* lines 374-391 for the column col, whose two number inputs show its
\* smallest and its largest value, lowest and highest: st.number_input
\* raises StreamlitAPIException for a value outside min_value..max_value,
\* and shows nan for a column without a number, which no row compares with
NerdyBetween(frame, col, min_value, max_value, lowest, highest) ==
    IF \E v \in {lowest, highest} :
           v # nan /\ ~(FloatLe(min_value, v) /\ FloatLe(v, max_value))
    THEN [raised |-> "StreamlitAPIException"]
    ELSE [raised |-> "none",
          value |-> Where(frame, LAMBDA r : FloatLe(lowest, r[col]) /\ FloatLe(r[col], highest))]

NerdyColumn(frame, col, min_value) ==
    NerdyBetween(frame, col, Float(min_value, 1), Float(100, 1),
                 min(ColumnValues(frame, col)), max(ColumnValues(frame, col)))

\* lines 367-391: the radio "Nerdy Options"
NerdyFiltered(frame, filter_option) ==
    IF filter_option = "Off" THEN [raised |-> "none", value |-> frame]
    ELSE IF filter_option = "Daily SOC Limit"
    THEN NerdyColumn(frame, <<"Daily SOC Limit">>, 50)
    ELSE NerdyColumn(frame, <<"DC Ratio">>, 0)

XAxisOptions == {"Age", "Odometer", "Cycles"}

\* lines 345-353 and 633-645
x_column(x_axis_data) == <<x_axis_data>>
divisor(x_axis_data) == IF x_axis_data = "Odometer" THEN 1000 ELSE 1

\* the column DegradationPerX
rate == <<"DegradationPerX">>

\* line 661: df['DegradationPerX'] = df['Degradation'] / (df[x] / divisor),
\* columns being the names of the columns after the assignment
WithRate(frame, columns, x, by) ==
    [columns |-> columns,
     rows |-> Computed([i \in 1..Len(frame.rows) |->
                  Computed([c \in {columns[k] : k \in 1..Len(columns)} |->
                      IF c = rate
                      THEN FloatDiv(frame.rows[i][<<"Degradation">>],
                                    FloatDiv(frame.rows[i][x], Float(by, 1)))
                      ELSE frame.rows[i][c]])])]

RateColumns(columns) == IF Contains(columns, rate) THEN columns ELSE Append(columns, rate)

\* lines 664-665: the infinities of every column as nan, then the rows with
\* a rate other than 0
WithoutNoRate(frame) ==
    Where(Where(ApplyAll(frame, {frame.columns[k] : k \in 1..Len(frame.columns)},
                         LAMBDA v : IF IsInf(v) THEN nan ELSE v),
                LAMBDA r : ~isna(r[rate])),
          LAMBDA r : r[rate] # Float(0, 1))

\* lines 661-665 on the rows line 649 left
RatesOf(frame, x, by) == WithoutNoRate(WithRate(frame, RateColumns(frame.columns), x, by))

\* lines 474-649: the X column as numbers (474, 648, 652), the rows with a
\* degradation and an X value (649)
WithX(frame, x) ==
    Where(Apply(frame, x, to_numeric), LAMBDA r : ~isna(r[<<"Degradation">>]) /\ ~isna(r[x]))

\* lines 474-665 past the charts, which read st.session_state.filtered_df
\* and leave it alone
DegradationRates(frame, x_axis_data) ==
    RatesOf(WithX(frame, x_column(x_axis_data)), x_column(x_axis_data), divisor(x_axis_data))

\* line 400: st.cache_data.clear() empties the memo of every function
\* decorated with st.cache_data, on every page of the app
cache_data_clear(data, crawl, battery) ==
    [data |-> NoMemo, crawl |-> NoMemo, battery |-> NoMemo]

Defined(v) == [defined |-> TRUE, value |-> v]

\* line 405: the assignment of the Reset Filters button
ResetFilters(state, defaults) == [state EXCEPT !.filters = Defined(defaults)]

(***************************************************************************)
(* Streamlit runs the script from its first line for every interaction of  *)
(* the user, as the releases that have both st.cache_data and              *)
(* st.experimental_rerun do.                                               *)
(*                                                                         *)
(* A widget is identified by its kind, its label, its key and its other    *)
(* arguments: the options of a multiselect, the value argument of a number *)
(* input.  A call of a widget function registers the widget and returns    *)
(* the value the session holds for its identity, or the default of the     *)
(* widget when the session holds none (no selection, the value argument,   *)
(* the first option of a radio).  The session holds the values of the      *)
(* identities the browser has sent or a run has registered.  When a run    *)
(* finishes, at the last line or at st.experimental_rerun, the values of   *)
(* the identities it did not register are forgotten and the browser drops  *)
(* every element the run did not draw; after an exception the browser      *)
(* drops them too, and the values stay.                                    *)
(*                                                                         *)
(* An interaction during a run stops the run at the next call that sends   *)
(* an element to the browser (any st call of the script, and the spinner   *)
(* that st.cache_data shows around a function it has to call), before the  *)
(* element is sent: the assignments of the lines before stay, the values   *)
(* of the session stay, the elements of the run before stay on the screen  *)
(* where this run has not replaced them, and the interaction starts a new  *)
(* run.  A button is True in the one run its press starts; when that run   *)
(* stops before the line of the button, the press is gone.                 *)
(*                                                                         *)
(* A run takes two steps, one for each call that waits for the             *)
(* spreadsheet: lines 15-715 with the answer to fetch_data, and lines      *)
(* 754-767 with the answer to fetch_battery_info.  The stops of the model  *)
(* are one per set of lines between which the script assigns nothing and   *)
(* registers no widget.  The scatter plot with its trend line (lines       *)
(* 476-632), the bar chart (lines 667-715) and the table (lines 756-765)   *)
(* draw what lines 395 and 665 computed and assign nothing the script      *)
(* reads again; the Backend range holds the columns lines 739-760 index;   *)
(* the Y axis radio, the trend line checkbox and the inputs of the Nerdy   *)
(* Options stay as they are.                                               *)
(***************************************************************************)
\* the widgets of the sidebar the user of the model changes, in the order
\* in which a run registers them (lines 275, 282, 289, 313, 314, 318, 319,
\* 328, 367, 399 and 403)
WidgetOrder ==
    <<"tesla", "version", "battery", "min_age", "max_age", "min_odo", "max_odo",
      "x_axis_data", "filter_option", "refresh_data", "reset_filters">>

WidgetNames == {WidgetOrder[k] : k \in 1..Len(WidgetOrder)}

Position(name) == CHOOSE k \in 1..Len(WidgetOrder) : WidgetOrder[k] = name

\* a widget that is not on the screen and of which the session holds no
\* value: shown is the identity on the screen, alive the values the session
\* holds, by identity
NoWidget == [shown |-> Undefined, alive |-> [id \in {} |-> {}]]

\* the widgets of a new session
NewWidgets == [name \in WidgetNames |-> NoWidget]

\* the call of a widget function with the arguments of the identity id
Register(w, name, id, default) ==
    [w EXCEPT ![name] =
        [shown |-> Defined(id),
         alive |-> [i \in DOMAIN w[name].alive \cup {id} |->
                       IF i \in DOMAIN w[name].alive THEN w[name].alive[i] ELSE default]]]

\* what the call of a widget on the screen returned or will return
Value(w, name) == w[name].alive[w[name].shown.value]

\* the browser sends the value of a widget on the screen
Change(w, name, value) == [w EXCEPT ![name].alive[w[name].shown.value] = value]

\* a run that registered the first k widgets finishes
Culled(w, k) ==
    [name \in WidgetNames |->
        IF Position(name) <= k
        THEN [shown |-> w[name].shown,
              alive |-> [i \in {w[name].shown.value} |-> w[name].alive[i]]]
        ELSE NoWidget]

\* a run that registered the first k widgets raises
Cleared(w, k) ==
    [name \in WidgetNames |->
        IF Position(name) <= k THEN w[name] ELSE [w[name] EXCEPT !.shown = Undefined]]

\* no widget is on the screen any more
Hidden(w) == Cleared(w, 0)

\* the values of the four number inputs
NumberValues(w) == [name \in InputNames |-> Value(w, name)]

\* where the first step of a run ended: the exception it raised, the line
\* at which an interaction stopped it, the button that asked for a rerun,
\* st.session_state, the widgets, and the dataset whose rows line 419
\* counted
Ended(raised, stop, press, state, w, counted) ==
    [raised |-> raised, stop |-> stop, press |-> press, state |-> state, w |-> w,
     counted |-> counted]

Stopped(line, state, w, counted) == Ended("none", line, "none", state, w, counted)

\* st.session_state with filtered_df assigned
Shown(state, value) == [state EXCEPT !.filtered_df = Defined(value)]

\* lines 633-715; the run then waits at line 754
Rates(state, w, counted) ==
    {Stopped("line 714", state, w, Defined(counted)),
     Ended("none", "none", "none", state, w, Defined(counted))}

\* lines 419-715: the count of the rows, then line 474 and the degradation
\* rates of the rows that line 419 counted
Charts(frame, state, w, counted) ==
    {Stopped("line 419", state, w, Undefined), Stopped("line 422", state, w, Defined(counted))}
        \cup IF ~Contains(frame.columns, x_column(Value(w, "x_axis_data")))
             THEN {Ended("KeyError", "none", "none", state, Cleared(w, 11), Defined(counted))}
             ELSE {Stopped("line 628",
                           Shown(state, Apply(counted, x_column(Value(w, "x_axis_data")),
                                              to_numeric)),
                           w, Defined(counted))}
                      \cup Rates(Shown(state, DegradationRates(counted, Value(w, "x_axis_data"))),
                                 w, counted)

\* line 403: the button Reset Filters, then lines 405-416
ResetButton(frame, state, w, click, defaults, counted) ==
    IF click = "reset"
    THEN {Ended("none", "none", "reset", ResetFilters(state, defaults), Culled(w, 11), Undefined)}
    ELSE Charts(frame, state, w, counted)

\* lines 398-416: the button Refresh Data, then lines 400-401
Buttons(frame, state, w, click, defaults, counted) ==
    {Stopped("line 398", state, w, Undefined)}
        \cup IF click = "refresh"
             THEN {Ended("none", "none", "refresh", state,
                         Culled(Register(w, "refresh_data", "button", FALSE), 10), Undefined)}
             ELSE {Stopped("line 403", state, Register(w, "refresh_data", "button", FALSE),
                           Undefined)}
                      \cup ResetButton(frame, state,
                                       Register(Register(w, "refresh_data", "button", FALSE),
                                                "reset_filters", "button", FALSE),
                                       click, defaults, counted)

\* lines 394-416, counted being the rows within the bounds of the inputs
Filtered(frame, state, w, click, defaults, counted) ==
    Buttons(frame, Shown(state, counted), w, click, defaults, counted)

\* lines 374-416, nerdy being what the Nerdy Options make of the rows of
\* lines 331-332
AfterNerdy(frame, state, w, click, defaults, nerdy) ==
    IF nerdy.raised # "none"
    THEN {Ended(nerdy.raised, "none", "none", state, Cleared(w, 9), Undefined)}
    ELSE Filtered(frame, Shown(state, nerdy.value), w, click, defaults,
                  RangeFiltered(nerdy.value, NumberValues(w)))

\* lines 367-416, the radio "Nerdy Options" registered
NerdyOptions(frame, state, w, click, defaults, ranged) ==
    (IF Value(w, "filter_option") = "Off" THEN {}
     ELSE {Stopped("line 375", state, w, Undefined)})
        \cup AfterNerdy(frame, state, w, click, defaults,
                        NerdyFiltered(ranged, Value(w, "filter_option")))

\* lines 331-416, ranged being the rows within the bounds of the inputs
Ranged(frame, state, w, click, defaults, ranged) ==
    {Stopped("line 357", Shown(state, ranged), w, Undefined)}
        \cup NerdyOptions(frame, Shown(state, ranged),
                          Register(w, "filter_option", "radio", "Off"), click, defaults,
                          ranged)

\* lines 328-416, the radio of the X axis registered
XAxis(frame, state, w, click, defaults, attribute) ==
    Ranged(frame, state, w, click, defaults, RangeFiltered(attribute, NumberValues(w)))

\* lines 322-416
Radios(frame, state, w, click, defaults, attribute) ==
    {Stopped("line 322", state, w, Undefined)}
        \cup XAxis(frame, state, Register(w, "x_axis_data", "radio", "Age"), click,
                   defaults, attribute)

\* the st call before number input i is registered: the columns of lines
\* 312 and 317, which come before the arguments of the input are computed,
\* and the number inputs of lines 314 and 319 themselves
InputStops == <<"line 312", "line 314", "line 317", "line 319">>

RECURSIVE Inputs(_, _, _, _, _, _, _, _)
\* lines 312-416 from number input i on: an input whose value argument
\* differs from the one it was created with is a new widget and shows that
\* argument
Inputs(frame, state, w, click, defaults, attribute, bounds, i) ==
    IF i > Len(InputOrder) THEN Radios(frame, state, w, click, defaults, attribute)
    ELSE IF ParamOf(bounds, i).raised # "none"
    THEN (IF i \in {1, 3} THEN {Stopped(InputStops[i], state, w, Undefined)} ELSE {})
             \cup {Ended(ParamOf(bounds, i).raised, "none", "none", state,
                         Cleared(w, 3 + i - 1), Undefined)}
    ELSE {Stopped(InputStops[i], state, w, Undefined)}
             \cup Inputs(frame, state,
                         Register(w, InputOrder[i], ParamOf(bounds, i).value,
                                  ParamOf(bounds, i).value),
                         click, defaults, attribute, bounds, i + 1)

\* lines 292-416, attribute being the rows the pickers keep
Attribute(frame, state, w, click, defaults, attribute) ==
    Inputs(frame, Shown(state, attribute), w, click, defaults, attribute,
           Bounds(attribute), 1)

\* lines 289-416
Battery(frame, state, w, click, defaults) ==
    IF ~Contains(frame.columns, <<"Battery">>)
    THEN {Ended("KeyError", "none", "none", state, Cleared(w, 2), Undefined)}
    ELSE {Stopped("line 289", state, w, Undefined)}
             \cup Attribute(frame, state,
                            Register(w, "battery",
                                     unique(AttributeFiltered(frame, Value(w, "tesla"),
                                                              Value(w, "version"), {}),
                                            <<"Battery">>), {}),
                            click, defaults,
                            AttributeFiltered(frame, Value(w, "tesla"), Value(w, "version"),
                                Value(Register(w, "battery",
                                     unique(AttributeFiltered(frame, Value(w, "tesla"),
                                                              Value(w, "version"), {}),
                                            <<"Battery">>), {}), "battery")))

\* lines 282-416
Version(frame, state, w, click, defaults) ==
    IF ~Contains(frame.columns, <<"Version">>)
    THEN {Ended("KeyError", "none", "none", state, Cleared(w, 1), Undefined)}
    ELSE {Stopped("line 282", state, w, Undefined)}
             \cup Battery(frame, state,
                          Register(w, "version",
                                   unique(AttributeFiltered(frame, Value(w, "tesla"), {}, {}),
                                          <<"Version">>), {}),
                          click, defaults)

\* lines 169-416
Tesla(frame, state, w, click, defaults) ==
    {Stopped("line 169", state, w, Undefined)}
        \cup IF ~Contains(frame.columns, <<"Tesla">>)
             THEN {Ended("KeyError", "none", "none", state, Cleared(w, 0), Undefined)}
             ELSE Version(frame, state, Register(w, "tesla", unique(frame, <<"Tesla">>), {}),
                          click, defaults)

\* lines 136-162
Defaults(frame, state, w, click, defaults) ==
    IF defaults.raised # "none"
    THEN {Ended(defaults.raised, "none", "none", state, Cleared(w, 0), Undefined)}
    ELSE Tesla(frame,
               [state EXCEPT !.filters = IF @.defined THEN @ ELSE Defined(defaults.value),
                             !.filtered_df = IF @.defined THEN @ ELSE Defined(frame)],
               w, click, defaults.value)

\* the ends of lines 136-715 for the DataFrame df: state is
\* st.session_state, w the widgets, click the button that was pressed
\* ("none", "refresh" or "reset")
Body(frame, state, w, click) == Defaults(frame, state, w, click, DefaultFilters(frame))

\* the outcomes of reading the worksheet (lines 36-61): gspread answers, or
\* raises for the credentials, the network or the API
ReadOutcomes == {"ok", "APIError"}

\* the ends of lines 15-715: hit tells whether fetch_data was memoized and
\* fetched is what line 133 returned or raised.  st.set_page_config is the
\* first st call, and st.cache_data shows its spinner when it has to call
\* the function
Ends(state, w, click, hit, fetched) ==
    {Stopped("line 15", state, w, Undefined)}
        \cup IF fetched.raised # "none"
             THEN {Ended(fetched.raised, "none", "none", state, Cleared(w, 0), Undefined)}
             ELSE (IF hit THEN {} ELSE {Stopped("line 133", state, w, Undefined)})
                      \cup Body(fetched.value, state, w, click)

\* the memos after the first step of a run that has called fetch_data: an
\* exception leaves nothing memoized
Memos(end, fetched) ==
    IF fetched.raised # "none"
    THEN [data |-> NoMemo, crawl |-> crawl_cache, battery |-> battery_cache]
    ELSE IF end.press = "refresh"
    THEN cache_data_clear([kind |-> "memo", value |-> fetched.value], crawl_cache,
                          battery_cache)
    ELSE [data |-> [kind |-> "memo", value |-> fetched.value], crawl |-> crawl_cache,
          battery |-> battery_cache]

\* the first step of a run has ended: called tells whether it has reached
\* line 133.  The run notes what started it, whether line 133 called
\* fetch_data, the DataFrame df, the counted dataset, the functions that
\* have not been called since Refresh Data was last pressed (the run of the
\* press apart), whether its call of fetch_data was the first since then,
\* and the interactions and the stopped runs of the session so far
Finish(trigger, end, called, hit, fetched, memos) ==
    /\ data_cache' = memos.data
    /\ crawl_cache' = memos.crawl
    /\ battery_cache' = memos.battery
    /\ error' = end.raised
    /\ pc' = IF end.raised # "none" THEN "crashed"
             ELSE IF end.stop # "none" THEN "interrupted"
             ELSE IF end.press # "none" THEN "rerun" ELSE "line 754"
    /\ run' = [trigger |-> trigger,
               fetched |-> called /\ ~hit,
               df |-> IF called /\ fetched.raised = "none" THEN Defined(fetched.value)
                      ELSE Undefined,
               counted |-> end.counted,
               since_press |-> IF trigger = "refresh" THEN {"fetch_data", "scan"}
                               ELSE IF called THEN run.since_press \ {"fetch_data"}
                               ELSE run.since_press,
               first_call |-> /\ trigger # "refresh"
                              /\ called
                              /\ "fetch_data" \in run.since_press,
               interactions |-> run.interactions
                                    + (IF trigger \in {"widget", "refresh", "reset"}
                                       THEN 1 ELSE 0),
               interrupts |-> run.interrupts + (IF end.stop # "none" THEN 1 ELSE 0)]
    /\ widgets' = end.w
    /\ session_state' = end.state

\* the first step of a run with the answer of line 133
FromFetch(trigger, w, click, hit, fetched) ==
    \E end \in Ends(session_state, w, click, hit, fetched) :
        /\ end.stop # "none" => run.interrupts < MaxInterrupts
        /\ Finish(trigger, end, end.stop # "line 15", hit, fetched,
                  IF end.stop = "line 15"
                  THEN [data |-> data_cache, crawl |-> crawl_cache, battery |-> battery_cache]
                  ELSE Memos(end, fetched))

\* a run of the script up to line 754: trigger is what started it (the
\* opening of the dashboard, a widget, a button or the rerun a button asked
\* for), w the widgets with
\* what the browser has sent, click the button that was pressed and outcome
\* what reading the worksheet does when line 133 finds no memo
Script(trigger, w, click, outcome) ==
    /\ data_cache # NoMemo => outcome = "ok"
    /\ \E fetched \in {IF data_cache # NoMemo
                       THEN [raised |-> "none", value |-> data_cache.value]
                       ELSE IF outcome # "ok" THEN [raised |-> outcome]
                       ELSE fetch_data(sheet)} :
           FromFetch(trigger, w, click, data_cache # NoMemo, fetched)
    /\ UNCHANGED <<sheet, messages, metadata_cache, metadata_file, loopVars,
                   rangeVars, historyVars, plotVars, logVars, classifyVars,
                   metaVars, filterVars, smoothVars, headerVars>>

(***************************************************************************)
(* Dashboard sessions.  The worksheet has the eleven columns the script    *)
(* reads and one to MaxEntries consecutive rows of the samples, or the     *)
(* first sample without its Cycles or without its Degradation column.  The *)
(* dashboard is opened after the performance page has memoized its crawl.  *)
(* With every interaction the user changes one widget that is on the       *)
(* screen: one picker, to at most one value; MIN Age, to 2; MAX ODO, to    *)
(* 21000; a radio; a button.  The user may act while a run is under way,   *)
(* at most MaxInterrupts times in a session, and may leave for the         *)
(* performance page, where the session is followed up to the scan of the   *)
(* directory.                                                              *)
(***************************************************************************)
Database ==
    << <<"Tesla">>, <<"Version">>, <<"Battery">>, <<"Age">>, <<"Odometer">>,
       <<"Degradation">>, <<"Rated Range">>, <<"Capacity Net Now">>, <<"Cycles">>,
       <<"Daily SOC Limit">>, <<"DC Ratio">> >>

Months == <<" ", "M", "o", "n", "t", "h", "s">>

\* a row of the worksheet, its rated range and capacity cells the same
\* for every car
Submission(tesla, version, battery, age, odometer, degradation, cycles, soc, ratio) ==
    << <<tesla>>, <<version>>, <<battery>>, age, odometer, degradation,
       <<"4", "5", "0", " ", "k", "m">>, <<"7", "0", ",", "5", " ", "k", "W", "h">>,
       cycles, soc, ratio >>

SampleEntries ==
    << Submission("Model 3", "LR", "B1", <<"7">> \o Months, <<"2", "5", ",", "0", "0", "0">>,
                  <<"5", ",", "0", "%">>, <<"1", "0", "0">>, <<"8", "0", "%">>, <<>>),
       Submission("Model 3", "LR", "B1", <<"1", "2", ",", "3">> \o Months,
                  <<"3", "0", ",", "0", "0", "0">>,
                  <<"0", ",", "0", "%">>, <<>>, <<"9", "0", "%">>, <<"2", "5", "%">>),
       Submission("Model Y", "SR", "B2", <<"0", ",", "5">> \o Months, <<"8", "0", "0">>,
                  <<"1", ",", "5", "%">>, <<"0">>, <<>>, <<"5", "0", "%">>),
       Submission("Model Y", "LR", "B1", <<>>, <<"1", ",", "0", "0", "0">>,
                  <<>>, <<"5", "0">>, <<"6", "0", "%">>, <<"1", "0", "%">>),
       Submission("Model Y", "SR", "B2", <<"3">> \o Months, <<"1", "2", ",", "0", "0", "0">>,
                  <<"4", ",", "2", "%">>, <<"1", ",", "2", "0", "0">>, <<"4", "0", "%">>,
                  <<"7", "5", "%">>),
       Submission("Model 3", "SR", "B2", <<"1", ",", "2", ",", "5">> \o Months,
                  <<"9", ",", "0", "0", "0">>,
                  <<"2", "%">>, <<"3", "0">>, <<"7", "0", "%">>, <<"0", "%">>),
       Submission("Model 3", "LR", "B2", <<"6">> \o Months, <<"9", ",", "0", "0", "0">>,
                  <<"2", "%">>, <<"3", "0">>, <<"n", "/", "a">>, <<"0", "%">>) >>

\* the worksheet with the columns at the positions cols of the header and
\* of the samples first..last
SampleSheet(cols, first, last) ==
    LET Cut(row) == [k \in 1..Len(cols) |-> row[cols[k]]]
    IN  <<Cut(Database)>> \o [r \in 1..(last - first + 1) |-> Cut(SampleEntries[first + r - 1])]

\* the positions 1..n without the position left out
Without(n, out) == [k \in 1..(n - 1) |-> IF k < out THEN k ELSE k + 1]

SampleSheets ==
    {SampleSheet([k \in 1..Len(Database) |-> k], first, last) :
        first \in 1..Len(SampleEntries), last \in 1..Len(SampleEntries)}
    \cup {SampleSheet(Without(Len(Database), out), 1, 1) : out \in {6, 9}}

\* the values the user of the model types into the number inputs
EditValues == [min_age |-> 2, max_odo |-> 21000]

\* st.session_state of a new session
NewSession == [filters |-> Undefined, filtered_df |-> Undefined]

InitDashboard ==
    /\ sheet \in {s \in SampleSheets : Len(s) - 1 \in 1..MaxEntries}
    /\ data_cache = NoMemo
    /\ battery_cache = NoMemo
    /\ crawl_cache = [kind |-> "memo", value |-> scan_and_classify_folders(BASE_URL).value,
                      elements |-> {}]
    /\ session_state = NewSession
    /\ widgets = NewWidgets
    /\ run = NoRun
    /\ pc = "idle"
    /\ PassStart
    /\ ClassifyIdle
    /\ MetaIdle
    /\ FilterIdle
    /\ SmoothIdle
    /\ HeaderIdle

\* the user opens the dashboard
Open(outcome) ==
    /\ pc = "idle"
    /\ Script("open", widgets, "none", outcome)

\* the user can act on the widget: it is on the screen, and no run is under
\* way or an interaction has stopped the run (the interactions while a run
\* waits at line 754 stop it there, see FetchBatteryInfo; the run a button
\* asked for starts at once)
OnScreen(name) ==
    /\ pc \in {"shown", "crashed", "interrupted"}
    /\ widgets[name].shown.defined
    /\ run.interactions < MaxInteractions

\* the choices of the user among the options of a picker
Picks(options) == {{}} \cup {{options[k]} : k \in 1..Len(options)}

\* the selections of the sessions
PickerSelections == {{}} \cup {{<<t>>} : t \in {"Model 3", "Model Y", "LR", "SR", "B1", "B2"}}

\* lines 275-289: the user changes the selection of a picker
Select(name, selection, outcome) ==
    /\ OnScreen(name)
    /\ selection \in Picks(widgets[name].shown.value)
    /\ selection # Value(widgets, name)
    /\ Script("widget", Change(widgets, name, selection), "none", outcome)

\* lines 313-319: the user types a value into one of the number inputs
Edit(name, outcome) ==
    /\ OnScreen(name)
    /\ Value(widgets, name) # EditValues[name]
    /\ Script("widget", Change(widgets, name, EditValues[name]), "none", outcome)

\* line 328: the user turns the radio of the X axis
TurnXAxis(x_axis_data, outcome) ==
    /\ OnScreen("x_axis_data")
    /\ x_axis_data # Value(widgets, "x_axis_data")
    /\ Script("widget", Change(widgets, "x_axis_data", x_axis_data), "none", outcome)

\* line 367: the user turns the radio of the Nerdy Options
TurnFilterOption(filter_option, outcome) ==
    /\ OnScreen("filter_option")
    /\ filter_option # Value(widgets, "filter_option")
    /\ Script("widget", Change(widgets, "filter_option", filter_option), "none", outcome)

\* line 399: the user presses Refresh Data
PressRefresh(outcome) ==
    /\ OnScreen("refresh_data")
    /\ Script("refresh", widgets, "refresh", outcome)

\* line 403: the user presses Reset Filters
PressReset(outcome) ==
    /\ OnScreen("reset_filters")
    /\ Script("reset", widgets, "reset", outcome)

\* lines 401 and 416: st.experimental_rerun() starts the script again
Rerun(outcome) ==
    /\ pc = "rerun"
    /\ Script(IF run.trigger = "refresh" THEN "after refresh" ELSE "after reset",
              widgets, "none", outcome)

\* lines 719-767: the run goes on from line 754.  fetch_battery_info reads
\* the Backend range unless it is memoized; outcome is what reading does.
\* An exception ends the run with st.session_state as line 665 left it and
\* leaves nothing memoized.  An interaction during the wait stops the run
\* at the st call after the answer, line 763; otherwise the run finishes
FetchBatteryInfo(outcome, stop) ==
    /\ pc = "line 754"
    /\ battery_cache # NoMemo => outcome = "ok"
    /\ stop => outcome = "ok" /\ run.interrupts < MaxInterrupts
    /\ battery_cache' = IF outcome = "ok" THEN [kind |-> "memo"] ELSE NoMemo
    /\ error' = IF outcome = "ok" THEN "none" ELSE outcome
    /\ pc' = IF outcome # "ok" THEN "crashed" ELSE IF stop THEN "interrupted" ELSE "shown"
    /\ widgets' = IF outcome = "ok" /\ ~stop THEN Culled(widgets, Len(WidgetOrder))
                  ELSE widgets
    /\ run' = [run EXCEPT !.interrupts = @ + (IF stop THEN 1 ELSE 0)]
    /\ UNCHANGED <<sheet, data_cache, session_state, crawl_cache, messages,
                   metadata_cache, metadata_file, loopVars, rangeVars, historyVars,
                   plotVars, logVars, classifyVars, metaVars, filterVars, smoothVars,
                   headerVars>>

\* line 33, ttl=300: the memo of fetch_data expires
ExpireData ==
    /\ data_cache # NoMemo
    /\ data_cache' = NoMemo
    /\ UNCHANGED <<sheet, battery_cache, session_state, widgets, run, pc, passVars,
                   classifyVars, metaVars, filterVars, smoothVars, headerVars>>

\* line 719, ttl=300: the memo of fetch_battery_info expires
ExpireBatteryInfo ==
    /\ battery_cache # NoMemo
    /\ battery_cache' = NoMemo
    /\ UNCHANGED <<sheet, data_cache, session_state, widgets, run, pc, passVars,
                   classifyVars, metaVars, filterVars, smoothVars, headerVars>>

\* the user leaves the dashboard for the performance page, whose script
\* starts a pass (StartPass): the widgets of the dashboard leave the screen
OpenPerformance ==
    /\ pc \in {"shown", "crashed", "interrupted"}
    /\ run.trigger # "page"
    /\ pc' = "scan"
    /\ metadata_cache' = metadata_file
    /\ widgets' = Hidden(widgets)
    /\ run' = [run EXCEPT !.trigger = "page"]
    /\ UNCHANGED <<sheet, data_cache, battery_cache, session_state, error, messages,
                   metadata_file, crawl_cache, loopVars, rangeVars, historyVars, plotVars,
                   logVars, classifyVars, smoothVars, headerVars, metaVars, filterVars>>

NextDashboard ==
    \/ \E outcome \in ReadOutcomes : Open(outcome)
    \/ \E name \in {"tesla", "version", "battery"}, selection \in PickerSelections,
          outcome \in ReadOutcomes : Select(name, selection, outcome)
    \/ \E name \in DOMAIN EditValues, outcome \in ReadOutcomes : Edit(name, outcome)
    \/ \E x_axis_data \in XAxisOptions, outcome \in ReadOutcomes :
           TurnXAxis(x_axis_data, outcome)
    \/ \E filter_option \in FilterOptions, outcome \in ReadOutcomes :
           TurnFilterOption(filter_option, outcome)
    \/ \E outcome \in ReadOutcomes : PressRefresh(outcome)
    \/ \E outcome \in ReadOutcomes : PressReset(outcome)
    \/ \E outcome \in ReadOutcomes : Rerun(outcome)
    \/ \E outcome \in ReadOutcomes, stop \in BOOLEAN : FetchBatteryInfo(outcome, stop)
    \/ ExpireData
    \/ ExpireBatteryInfo
    \/ OpenPerformance
    \/ \E outcome \in Outcomes : Scan(outcome)

SpecDashboard == InitDashboard /\ [][NextDashboard]_vars

(***************************************************************************)
(* Claims about the dashboard                                              *)
(***************************************************************************)
\* the performance page has scanned the directory in this session
PageScanned == run.trigger = "page" /\ pc # "scan"

\* C21: after a press of Refresh Data the next pass fetches again instead
\* of reusing a memoized result: the first call of fetch_data after the
\* press (the run of the press apart) reads the worksheet, and the first
\* scan of the performance page after the press requests the listing of the
\* directory.
C21_RefreshDiscardsMemos ==
    /\ run.first_call => run.fetched
    /\ (PageScanned /\ "scan" \in run.since_press) => requests # <<>>

\* C22: in the run that follows a press of Reset Filters the three pickers
\* are empty, the four number inputs show the values computed from the
\* whole dataset, and the filtered dataset is the one these values give
\* without any picker selection.
C22_ResetRestoresDefaults ==
    (run.trigger = "after reset" /\ pc = "shown" /\ Value(widgets, "filter_option") = "Off") =>
        /\ Value(widgets, "tesla") = {}
        /\ Value(widgets, "version") = {}
        /\ Value(widgets, "battery") = {}
        /\ NumberParams(run.df.value).raised = "none"
        /\ NumberValues(widgets) = NumberParams(run.df.value).value
        /\ run.counted.value =
               RangeFiltered(run.df.value, NumberParams(run.df.value).value)

\* the rows with a number in both the Age and the Odometer column
Numeric(frame) ==
    Where(frame, LAMBDA r : ~isna(r[<<"Age">>]) /\ ~isna(r[<<"Odometer">>]))

\* C27: after a run in which the four number inputs show their default
\* values and the Nerdy Options are off, the filtered dataset holds every
\* row of the attribute-filtered dataset that has a numeric age and
\* odometer.
C27_DefaultBoundsKeepEveryRow ==
    (/\ run.counted.defined
     /\ \A name \in InputNames : Value(widgets, name) = widgets[name].shown.value
     /\ Value(widgets, "filter_option") = "Off") =>
        run.counted.value =
            Numeric(AttributeFiltered(run.df.value, Value(widgets, "tesla"),
                                      Value(widgets, "version"), Value(widgets, "battery")))
====
